---- MODULE Spec2Model ----
(***************************************************************************)
(* Model of the transactional core of flowerpot-booking:                   *)
(*   - the in-memory repositories (core/memory_repositories.py),           *)
(*   - the snapshot based InMemoryUnitOfWork (core/memory_unit_of_work.py),*)
(*   - the use cases that orchestrate them (core/*/use_cases/*.py).        *)
(*                                                                         *)
(* A Python dict is a TLA+ function from its keys to its values.  Every    *)
(* use case only ever inserts under fresh, increasing ids, so a dict's     *)
(* insertion order is the ascending order of its keys.                     *)
(* deepcopy is the identity on values: TLA+ values never alias.            *)
(***************************************************************************)
EXTENDS Integers, Sequences, FiniteSets, TLC

VARIABLES
    entities,     \* [repo |-> InMemoryRepository._entities]
    next_id,      \* [repo |-> InMemoryRepository._next_id]
    snapshots,    \* [repo |-> InMemoryUnitOfWork._<repo>_snapshots]
    is_active,    \* InMemoryUnitOfWork._is_active
    depth,        \* caller position: number of `with uow:` scopes it is inside
    last,         \* the last call made and what it returned or raised
    phase,        \* history: what happened in the current outermost scope
    begun,        \* history: the entities at the __enter__ of the open transaction
    assigned,     \* history: [repo |-> greatest id save ever assigned]
    writes,       \* history: number of save and delete calls made on the repositories
    heap          \* the objects behind one repository: who refers to which object

vars == <<entities, next_id, snapshots, is_active, depth, last, phase, begun,
          assigned, writes, heap>>

(***************************************************************************)
(* Bounds of the model.                                                    *)
(***************************************************************************)
MaxId == 2          \* ids a caller of the repositories uses
MaxDepth == 2       \* nesting of `with uow:` scopes the caller may open
MaxWrites == 3      \* save and delete calls a caller of the repositories makes
MaxWorkshops == 1   \* workshop ids the use cases hand out
MaxBookings == 2    \* booking ids, and guardian ids, the use cases hand out
MaxFamilies == 2    \* greatest max_families of a created workshop
MaxChildren == 2    \* greatest max_children, and longest children list
MaxDeficit == 1     \* how far below zero the model follows a child counter
MaxObjects == 5     \* objects the object-level model allocates

(***************************************************************************)
(* Values.                                                                 *)
(***************************************************************************)
\* Python's None for an id (an unset id is falsy, like 0).
None == 0

Repos == {"workshops", "bookings", "guardians"}

\* An empty dict.
EmptyDict == [k \in {} |-> None]

EmptyDicts == [r \in Repos |-> EmptyDict]

\* WorkshopEntity(...): the capacity fields, and title, which stands for the
\* four descriptive fields title, date, time and location: they take part
\* in no decision and are only ever written together.  Every workshop is
\* created with the title "w".
WorkshopEntity(id, max_families, max_children, current_families, current_children) ==
    [id |-> id, title |-> "w",
     max_families |-> max_families, max_children |-> max_children,
     current_families |-> current_families, current_children |-> current_children]

\* GuardianEntity(...): the email is the only field any use case reads.
GuardianEntity(id, email) == [id |-> id, email |-> email]

\* BookingEntity(...): children is the list of Child objects.
BookingEntity(id, workshop_id, guardian_id, children, status, cancellation_reason) ==
    [id |-> id, workshop_id |-> workshop_id, guardian_id |-> guardian_id,
     children |-> children, status |-> status,
     cancellation_reason |-> cancellation_reason]

\* Child(name, age)
Child(name, age) == [name |-> name, age |-> age]

(***************************************************************************)
(* The store: both repositories' and the Unit-of-Work's fields, as one     *)
(* value the operations below transform.                                   *)
(***************************************************************************)
Store == [entities |-> entities, next_id |-> next_id, snapshots |-> snapshots,
          is_active |-> is_active]

Max(a, b) == IF a >= b THEN a ELSE b

Put(d, k, v) == [x \in (DOMAIN d) \cup {k} |-> IF x = k THEN v ELSE d[x]]

Remove(d, k) == [x \in (DOMAIN d) \ {k} |-> d[x]]

\* InMemoryRepository.get_by_id: the entity, or None (an entity whose id is None)
Has(s, r, id) == id \in DOMAIN s.entities[r]

GetById(s, r, id) == IF Has(s, r, id) THEN s.entities[r][id] ELSE [id |-> None]

\* InMemoryRepository.get_all, as the set of stored entities
GetAll(s, r) == {s.entities[r][k] : k \in DOMAIN s.entities[r]}

\* mutant: the next id is computed from the keys present, not from the counter
SaveReusingIds(s, r, e) ==
    LET keys == DOMAIN s.entities[r]
        fresh == IF keys = {} THEN 1
                 ELSE (CHOOSE m \in keys : \A k \in keys : k <= m) + 1
        entity_copy == IF e.id = None THEN [e EXCEPT !.id = fresh] ELSE e
    IN  [store |-> [s EXCEPT !.entities[r] = Put(@, entity_copy.id, entity_copy),
                             !.next_id[r] = IF e.id = None THEN fresh + 1 ELSE @],
         entity |-> entity_copy]

\* InMemoryRepository.save: the store after the call and the entity returned
Save(s, r, e) ==
    LET entity_copy == IF e.id = None THEN [e EXCEPT !.id = s.next_id[r]] ELSE e
    IN  [store |-> [s EXCEPT !.entities[r] = Put(@, entity_copy.id, entity_copy),
                             !.next_id[r] = IF e.id = None THEN @ + 1 ELSE @],
         entity |-> entity_copy]

\* mutant: deleting a stored entity empties its collection
DeleteEverything(s, r, id) ==
    IF Has(s, r, id) THEN [s EXCEPT !.entities[r] = EmptyDict] ELSE s

\* InMemoryRepository.delete
Delete(s, r, id) ==
    IF Has(s, r, id) THEN [s EXCEPT !.entities[r] = Remove(@, id)] ELSE s

\* InMemoryUnitOfWork._take_snapshots
TakeSnapshots(s) == [s EXCEPT !.snapshots = s.entities]

\* mutant: begin empties the live collections it has copied
EnterMoving(s) == [s EXCEPT !.snapshots = s.entities, !.entities = EmptyDicts,
                            !.is_active = TRUE]

\* mutant: a begin while active keeps the snapshots of the first begin
EnterKeepingSnapshots(s) ==
    IF s.is_active THEN s ELSE [TakeSnapshots(s) EXCEPT !.is_active = TRUE]

\* InMemoryUnitOfWork.__enter__
Enter(s) == [TakeSnapshots(s) EXCEPT !.is_active = TRUE]

\* mutant: commit does not close the transaction
CommitStaysActive(s) == [s EXCEPT !.snapshots = EmptyDicts]

\* InMemoryUnitOfWork.commit, past its state check
Commit(s) == [s EXCEPT !.snapshots = EmptyDicts, !.is_active = FALSE]

\* mutant: rollback forgets the guardian repository
RollbackTwoRepos(s) ==
    [s EXCEPT !.entities = [s.snapshots EXCEPT !.guardians = s.entities.guardians],
              !.snapshots = EmptyDicts, !.is_active = FALSE]

\* InMemoryUnitOfWork.rollback, past its state check
Rollback(s) == [s EXCEPT !.entities = s.snapshots, !.snapshots = EmptyDicts,
                         !.is_active = FALSE]

\* mutant: the state check of commit and rollback is missing
NeverRaises(s) == FALSE

\* commit and rollback raise ValueError when no transaction is active
RaisesInvalidState(s) == ~s.is_active

\* mutant: every exit, normal ones included, discards what was not committed
ExitDiscarding(s, exc) ==
    IF RaisesInvalidState(s) THEN s ELSE [Rollback(s) EXCEPT !.is_active = FALSE]

\* mutant: the exit hook never rolls back
ExitWithoutRollback(s, exc) == [s EXCEPT !.is_active = FALSE]

\* InMemoryUnitOfWork.__exit__; exc says an exception is propagating.  When
\* rollback raises, the assignment after it is not reached.
Exit(s, exc) ==
    IF exc
    THEN IF RaisesInvalidState(s) THEN s ELSE [Rollback(s) EXCEPT !.is_active = FALSE]
    ELSE [s EXCEPT !.is_active = FALSE]

\* whether __exit__ itself raises (the rollback it calls does)
ExitRaises(s, exc) == exc /\ RaisesInvalidState(s)

(***************************************************************************)
(* Entity methods.                                                         *)
(***************************************************************************)
\* mutant: the family check lets a full workshop through
HasFamilyCapacityOffByOne(w) == w.current_families <= w.max_families

\* WorkshopEntity.has_family_capacity
HasFamilyCapacity(w) == w.current_families < w.max_families

\* mutant: the family is not counted
AddFamilyNotCounted(w) == w

\* WorkshopEntity.add_family, as the workshop after the call
AddFamily(w) ==
    IF ~HasFamilyCapacity(w) THEN w
    ELSE [w EXCEPT !.current_families = @ + 1]

\* WorkshopEntity.remove_family, as the workshop after the call
RemoveFamily(w) ==
    IF w.current_families > 0 THEN [w EXCEPT !.current_families = @ - 1]
    ELSE w

\* BookingEntity.child_count
ChildCount(b) == Len(b.children)

\* mutant: marking a cancelled booking makes it active again
MarkAsCancelledToggling(b, reason) ==
    [b EXCEPT !.status = IF @ = "cancelled" THEN "active" ELSE "cancelled",
                    !.cancellation_reason = reason]

\* BookingEntity.mark_as_cancelled
MarkAsCancelled(b, reason) ==
    [b EXCEPT !.status = "cancelled", !.cancellation_reason = reason]

\* mutant: emails are compared as they are written
LowerUnchanged(email) == email

\* str.lower on the emails of the model
Lower(email) == IF email = "A@X" THEN "a@x" ELSE email

\* `email.strip()` is non-empty and '@' is in the email
ValidEmail(email) == email \in {"a@x", "A@X", "b@x"}

(***************************************************************************)
(* Use cases.  Each execute is one operator from the store and the input   *)
(* to the store afterwards and the result returned.  fail is the number of *)
(* the repository call of the execution that raises (0: none does), the    *)
(* way the tests patch a repository method with a raising mock.            *)
(***************************************************************************)
Result(s, result, id) == [store |-> s, result |-> result, id |-> id]

\* `return` inside `with self.unit_of_work:` : __exit__ runs without exception
Return(s, result, id) == Result(Exit(s, FALSE), result, id)

\* mutant: the exception is not caught and reaches the caller
RaiseEscapes(s) == Result(Exit(s, TRUE), "raised", None)

\* an exception inside `with self.unit_of_work:` : __exit__ runs with it, and
\* `except Exception` turns it (or the one __exit__ raised) into a failure
Raise(s) == Result(Exit(s, TRUE), "failed", None)

\* the value of fail with which the commit of an execution raises
CommitRaises == 9

\* self.unit_of_work.commit() followed by the `return` of the success result;
\* a commit that raises leaves the scope as any other exception does
CommitAndReturn(s, id, fail) ==
    IF RaisesInvalidState(s) \/ fail = CommitRaises THEN Raise(s)
    ELSE Return(Commit(s), "ok", id)

\* CreateWorkshopUseCase._validate_input (the numeric conditions)
ValidateCreateWorkshop(in) == in.max_families > 0 /\ in.max_children > 0

\* CreateWorkshopUseCase.execute
CreateWorkshopExecute(s0, in, fail) ==
    IF ~ValidateCreateWorkshop(in) THEN Result(s0, "invalid", None)
    ELSE LET s1 == Enter(s0)
             workshop == WorkshopEntity(None, in.max_families, in.max_children, 0, 0)
         IN  IF fail = 1 THEN Raise(s1)
             ELSE LET saved == Save(s1, "workshops", workshop)
                  IN  CommitAndReturn(saved.store, saved.entity.id, fail)

\* mutant: a booking without children is accepted
ValidateCreateBookingNoChildren(in) ==
    /\ ValidEmail(in.guardian_email)
    /\ \A i \in 1..Len(in.children) : in.children[i].age > 0

\* CreateBookingUseCase._validate_input
ValidateCreateBooking(in) ==
    /\ ValidEmail(in.guardian_email)
    /\ Len(in.children) > 0
    /\ \A i \in 1..Len(in.children) : in.children[i].age > 0

\* CreateBookingUseCase.execute
CreateBookingExecute(s0, in, fail) ==
    IF ~ValidateCreateBooking(in) THEN Result(s0, "invalid", None)
    ELSE
    LET s1 == Enter(s0)
        workshop == GetById(s1, "workshops", in.workshop_id)
        child_count == Len(in.children)
    IN  IF fail = 1 THEN Raise(s1)
        ELSE IF workshop.id = None THEN Return(s1, "not_found", None)
        ELSE IF ~HasFamilyCapacity(workshop)
             THEN Return(s1, "no_family_capacity", None)
        ELSE IF workshop.current_children + child_count > workshop.max_children
             THEN Return(s1, "no_child_capacity", None)
        ELSE IF fail = 2 THEN Raise(s1)
        ELSE
        LET saved_guardian ==
                Save(s1, "guardians", GuardianEntity(None, in.guardian_email))
            booking == BookingEntity(None, workshop.id, saved_guardian.entity.id,
                                     [i \in 1..child_count |->
                                         Child(in.children[i].name, in.children[i].age)],
                                     "active", "none")
        IN  IF fail = 3 THEN Raise(saved_guardian.store)
            ELSE
            LET saved_booking == Save(saved_guardian.store, "bookings", booking)
                updated == [AddFamily(workshop) EXCEPT
                               !.current_children = @ + child_count]
            IN  IF fail = 4 THEN Raise(saved_booking.store)
                ELSE CommitAndReturn(Save(saved_booking.store, "workshops", updated).store,
                                     saved_booking.entity.id, fail)

\* mutant: every canceller is let through
AnyoneMayCancel(booking, in) == TRUE

\* CancelBookingUseCase._validate_canceller
ValidateCanceller(booking, in) ==
    IF in.canceller_type = "admin" THEN TRUE
    ELSE IF in.canceller_type = "guardian" THEN booking.guardian_id = in.canceller_id
    ELSE FALSE

\* CancelBookingUseCase.execute
CancelBookingExecute(s0, in, fail) ==
    LET s1 == Enter(s0)
        booking == GetById(s1, "bookings", in.booking_id)
    IN  IF fail = 1 THEN Raise(s1)
        ELSE IF booking.id = None THEN Return(s1, "not_found", None)
        ELSE IF ~ValidateCanceller(booking, in) THEN Return(s1, "unauthorized", None)
        ELSE IF fail = 2 THEN Raise(s1)
        ELSE
        LET workshop == GetById(s1, "workshops", booking.workshop_id)
        IN  IF workshop.id = None THEN Return(s1, "workshop_not_found", None)
            ELSE IF fail = 3 THEN Raise(s1)
            ELSE
            LET released == RemoveFamily([workshop EXCEPT
                                !.current_children = @ - ChildCount(booking)])
                s2 == Save(s1, "workshops", released).store
            IN  IF fail = 4 THEN Raise(s2)
                ELSE
                LET s3 == Save(s2, "bookings", MarkAsCancelled(booking, in.reason)).store
                IN  IF fail = 5 THEN Raise(s3)
                    ELSE CommitAndReturn(s3, booking.id, fail)

\* RegisterGuardianUseCase._validate_input (the email condition)
ValidateRegisterGuardian(in) == ValidEmail(in.email)

\* mutant: the lookup by email finds nobody
FindNobody(s, email) == [id |-> None]

\* RegisterGuardianUseCase._find_by_email: the first guardian of get_all
\* whose email matches, or None
FindByEmail(s, email) ==
    LET matches == {k \in DOMAIN s.entities.guardians :
                       Lower(s.entities.guardians[k].email) = Lower(email)}
    IN  IF matches = {} THEN [id |-> None]
        ELSE s.entities.guardians[CHOOSE k \in matches : \A j \in matches : k <= j]

\* RegisterGuardianUseCase.execute
RegisterGuardianExecute(s0, in, fail) ==
    IF ~ValidateRegisterGuardian(in) THEN Result(s0, "invalid", None)
    ELSE
    LET s1 == Enter(s0)
        existing_guardian == FindByEmail(s1, in.email)
    IN  IF fail = 1 THEN Raise(s1)
        ELSE IF existing_guardian.id # None THEN Return(s1, "ok", existing_guardian.id)
        ELSE IF fail = 2 THEN Raise(s1)
        ELSE LET saved == Save(s1, "guardians", GuardianEntity(None, in.email))
             IN  CommitAndReturn(saved.store, saved.entity.id, fail)

\* LinkBookingsToGuardiansUseCase._validate_input
ValidateLinkBookings(in) ==
    /\ in.guardian_id > 0
    /\ Len(in.booking_ids) > 0
    /\ \A i \in 1..Len(in.booking_ids) : in.booking_ids[i] > 0

\* mutant: no booking counts as linked to another guardian
NeverLinkedToAnother(booking, guardian_id) == FALSE

\* the test of LinkBookingsToGuardiansUseCase.execute for a booking that is
\* already linked to a different guardian
LinkedToAnother(booking, guardian_id) ==
    booking.guardian_id # None /\ booking.guardian_id # guardian_id

\* the loop of LinkBookingsToGuardiansUseCase.execute from its i-th booking id
\* on, and the commit and return after it
RECURSIVE LinkLoop(_, _, _, _)
LinkLoop(s, in, i, fail) ==
    IF i > Len(in.booking_ids) THEN CommitAndReturn(s, None, fail)
    ELSE
    LET booking == GetById(s, "bookings", in.booking_ids[i])
    IN  IF fail = 2 * i THEN Raise(s)
        ELSE IF booking.id = None THEN Return(s, "booking_not_found", None)
        ELSE IF LinkedToAnother(booking, in.guardian_id)
             THEN Return(s, "already_linked", None)
        ELSE IF fail = 2 * i + 1 THEN Raise(s)
        ELSE LinkLoop(Save(s, "bookings",
                           [booking EXCEPT !.guardian_id = in.guardian_id]).store,
                      in, i + 1, fail)

\* LinkBookingsToGuardiansUseCase.execute
LinkBookingsExecute(s0, in, fail) ==
    IF ~ValidateLinkBookings(in) THEN Result(s0, "invalid", None)
    ELSE
    LET s1 == Enter(s0)
        guardian == GetById(s1, "guardians", in.guardian_id)
    IN  IF fail = 1 THEN Raise(s1)
        ELSE IF guardian.id = None THEN Return(s1, "guardian_not_found", None)
        ELSE LinkLoop(s1, in, 1, fail)

(***************************************************************************)
(* Scope-level model: a caller that uses the Unit-of-Work and the          *)
(* repositories directly, as core/unit_of_work.py and the tests in         *)
(* tests/core/test_unit_of_work.py do.  One action per method call.        *)
(***************************************************************************)
Apply(s) ==
    /\ entities' = s.entities
    /\ next_id' = s.next_id
    /\ snapshots' = s.snapshots
    /\ is_active' = s.is_active

\* what a call reports: its name and its result (or the exception it raised)
Call(op, result) == [op |-> op, result |-> result]

\* the entities a caller saves in the scope-level model
SampleEntities(r) ==
    CASE r = "workshops" -> {WorkshopEntity(None, 1, 1, 0, 0), WorkshopEntity(None, 1, 1, 1, 1)}
      [] r = "bookings"  -> {BookingEntity(None, 1, 1, <<Child("c", 5)>>, "active", "none")}
      [] r = "guardians" -> {GuardianEntity(None, "a@x")}

\* `with uow:` is entered
EnterScope ==
    /\ depth < MaxDepth
    /\ Apply(Enter(Store))
    /\ depth' = depth + 1
    /\ last' = Call("enter", "ok")
    /\ phase' = IF depth = 0 /\ ~is_active THEN "clean" ELSE "rebegun"
    /\ begun' = entities
    /\ UNCHANGED <<assigned, writes, heap>>

\* uow.commit()
CallCommit ==
    /\ IF RaisesInvalidState(Store)
       THEN /\ Apply(Store)
            /\ last' = Call("commit", "ValueError")
            /\ UNCHANGED <<phase, begun>>
       ELSE /\ Apply(Commit(Store))
            /\ last' = Call("commit", "ok")
            /\ phase' = "committed"
            /\ begun' = EmptyDicts
    /\ UNCHANGED <<depth, assigned, writes, heap>>

\* uow.rollback()
CallRollback ==
    /\ IF RaisesInvalidState(Store)
       THEN /\ Apply(Store)
            /\ last' = Call("rollback", "ValueError")
            /\ UNCHANGED <<phase, begun>>
       ELSE /\ Apply(Rollback(Store))
            /\ last' = Call("rollback", "ok")
            /\ phase' = "rolledback"
            /\ begun' = EmptyDicts
    /\ UNCHANGED <<depth, assigned, writes, heap>>

\* the scope is left; exc says an exception is propagating out of it
LeaveScope(exc) ==
    /\ depth > 0
    /\ Apply(Exit(Store, exc))
    /\ depth' = depth - 1
    /\ last' = Call(IF exc THEN "exit_error" ELSE "exit",
                    IF ExitRaises(Store, exc) THEN "ValueError" ELSE "ok")
    /\ phase' = IF depth = 1 THEN "outside" ELSE "inner_left"
    /\ begun' = EmptyDicts
    /\ UNCHANGED <<assigned, writes, heap>>

ExitNormally == LeaveScope(FALSE)

ExitOnError == LeaveScope(TRUE)

\* uow.<r>.save(e) with an unset id
SaveNew(r, e) ==
    /\ writes < MaxWrites
    /\ next_id[r] <= MaxId
    /\ Apply(Save(Store, r, e).store)
    /\ last' = Call("save_new", "ok")
    /\ assigned' = [assigned EXCEPT ![r] = Max(@, Save(Store, r, e).entity.id)]
    /\ writes' = writes + 1
    /\ UNCHANGED <<depth, phase, begun, heap>>

CallSaveNew == \E r \in Repos : \E e \in SampleEntities(r) : SaveNew(r, e)

\* uow.<r>.save(e) with the id the caller supplies
SaveAt(r, e, id) ==
    /\ writes < MaxWrites
    /\ Apply(Save(Store, r, [e EXCEPT !.id = id]).store)
    /\ last' = Call("save_at", "ok")
    /\ writes' = writes + 1
    /\ UNCHANGED <<depth, phase, begun, assigned, heap>>

CallSaveAt ==
    \E r \in Repos : \E e \in SampleEntities(r) : \E id \in 1..MaxId : SaveAt(r, e, id)

\* uow.<r>.delete(id)
DeleteAt(r, id) ==
    /\ writes < MaxWrites
    /\ Apply(Delete(Store, r, id))
    /\ last' = Call("delete", IF Has(Store, r, id) THEN "true" ELSE "false")
    /\ writes' = writes + 1
    /\ UNCHANGED <<depth, phase, begun, assigned, heap>>

CallDelete == \E r \in Repos : \E id \in 1..MaxId : DeleteAt(r, id)

\* InMemoryUnitOfWork.__init__ and InMemoryRepository.__init__
Init ==
    /\ entities = EmptyDicts
    /\ next_id = [r \in Repos |-> 1]
    /\ snapshots = EmptyDicts
    /\ is_active = FALSE
    /\ depth = 0
    /\ last = Call("init", "ok")
    /\ phase = "outside"
    /\ begun = EmptyDicts
    /\ assigned = [r \in Repos |-> 0]
    /\ writes = 0
    /\ heap = [objs |-> <<>>, live |-> EmptyDict, snap |-> EmptyDict,
               held |-> {}, next_id |-> 1, active |-> FALSE]

NextScope ==
    \/ EnterScope
    \/ CallCommit
    \/ CallRollback
    \/ ExitNormally
    \/ ExitOnError
    \/ CallSaveNew
    \/ CallSaveAt
    \/ CallDelete

SpecScope == Init /\ [][NextScope]_vars

(***************************************************************************)
(* Use-case model: every action is one execute call, from its validation   *)
(* to the result it returns; the caller is outside every scope.            *)
(***************************************************************************)
\* an execute call ended with result r
Executed(op, r) ==
    /\ Apply(r.store)
    /\ last' = Call(op, r.result)
    /\ UNCHANGED <<depth, phase, begun, assigned, writes, heap>>

\* the children lists of the inputs: n well-formed child dicts, or one dict
\* with a non-positive age
ChildLists ==
    {[i \in 1..n |-> [name |-> "c", age |-> 5]] : n \in {0, 1, MaxChildren}}
        \cup {<<[name |-> "c", age |-> 0]>>}

CreateWorkshopInputs ==
    [max_families : {0, 1, MaxFamilies}, max_children : {0, 1, MaxChildren}]

CreateBookingInputs ==
    [workshop_id : 1..MaxWorkshops, guardian_email : {"a@x", ""}, children : ChildLists]

CancelBookingInputs ==
    [booking_id : 1..MaxBookings, canceller_id : {1, MaxBookings},
     canceller_type : {"admin", "guardian"}, reason : {"ill"}]

RegisterGuardianInputs == [email : {"a@x", ""}]

CreateWorkshop(in, fail) ==
    /\ next_id.workshops <= MaxWorkshops
    /\ Executed("CreateWorkshop", CreateWorkshopExecute(Store, in, fail))

CreateBooking(in, fail) ==
    /\ next_id.bookings <= MaxBookings
    /\ next_id.guardians <= MaxBookings
    /\ Executed("CreateBooking", CreateBookingExecute(Store, in, fail))

\* the guard bounds how far below zero repeated cancellations take the
\* child counter
CancelBooking(in, fail) ==
    /\ \A k \in DOMAIN entities.workshops :
          entities.workshops[k].current_children > -MaxDeficit
    /\ Executed("CancelBooking", CancelBookingExecute(Store, in, fail))

RegisterGuardian(in, fail) ==
    /\ next_id.guardians <= MaxBookings
    /\ Executed("RegisterGuardian", RegisterGuardianExecute(Store, in, fail))

DoCreateWorkshop == \E in \in CreateWorkshopInputs : \E fail \in 0..1 : CreateWorkshop(in, fail)

DoCreateBooking == \E in \in CreateBookingInputs : \E fail \in 0..4 : CreateBooking(in, fail)

DoCancelBooking == \E in \in CancelBookingInputs : \E fail \in 0..5 : CancelBooking(in, fail)

DoRegisterGuardian ==
    \E in \in RegisterGuardianInputs : \E fail \in 0..2 : RegisterGuardian(in, fail)

Next ==
    \/ DoCreateWorkshop
    \/ DoCreateBooking
    \/ DoCancelBooking
    \/ DoRegisterGuardian

Spec == Init /\ [][Next]_vars

(***************************************************************************)
(* Linking model: bookings stored without a guardian (saved directly, as   *)
(* the callers of LinkBookingsToGuardians have them), guardians            *)
(* registered, and bookings linked.                                        *)
(***************************************************************************)
LinkBookingsInputs ==
    [guardian_id : 0..MaxBookings,
     booking_ids : {<<>>} \cup {<<a>> : a \in 1..MaxBookings}
                     \cup {<<a, b>> : a \in 1..MaxBookings, b \in 1..MaxBookings}]

LinkBookings(in, fail) ==
    Executed("LinkBookings", LinkBookingsExecute(Store, in, fail))

DoLinkBookings == \E in \in LinkBookingsInputs : \E fail \in 0..5 : LinkBookings(in, fail)

\* uow.bookings.save(BookingEntity(workshop_id=1, guardian_id=None)) with a child
SeedBooking ==
    /\ next_id.bookings <= MaxBookings
    /\ Apply(Save(Store, "bookings",
                  BookingEntity(None, 1, None, <<Child("c", 5)>>, "active", "none")).store)
    /\ last' = Call("save_new", "ok")
    /\ UNCHANGED <<depth, phase, begun, assigned, writes, heap>>

\* registrations with two spellings of one email, another email, and none
AnyGuardianInputs == [email : {"a@x", "A@X", "b@x", ""}]

DoRegisterAnyGuardian ==
    \E in \in AnyGuardianInputs : \E fail \in 0..2 : RegisterGuardian(in, fail)

NextLink ==
    \/ SeedBooking
    \/ DoRegisterAnyGuardian
    \/ DoLinkBookings

SpecLink == Init /\ [][NextLink]_vars

(***************************************************************************)
(* Claims about the Unit-of-Work and the repositories (under SpecScope).   *)
(***************************************************************************)

\* C1: when an error propagates out of a scope that was entered while idle and
\* in which neither commit nor rollback (nor a further begin) was called, the
\* three repositories hold after the exit what they held at scope entry.
C1_ErrorExitRestoresEntry ==
    [][(ExitOnError /\ depth = 1 /\ phase = "clean") => entities' = begun]_vars

\* a workshop was saved inside the scope (the only write ever made), the
\* error exit rolled back, and the workshop is absent
C1_Witness ==
    /\ last = Call("exit_error", "ok")
    /\ writes = 1
    /\ assigned.workshops = 1
    /\ ~Has(Store, "workshops", 1)
    /\ depth = 0

\* C2: an explicit rollback of an active transaction puts every repository
\* back to its contents at begin and leaves the Unit-of-Work idle.
C2_RollbackRestoresAll ==
    [][(CallRollback /\ is_active) => (entities' = begun /\ ~is_active')]_vars

\* a workshop and a guardian were saved after begin, and the rollback has
\* removed both
C2_Witness ==
    /\ last = Call("rollback", "ok")
    /\ writes = 2
    /\ assigned.workshops = 1
    /\ assigned.guardians = 1
    /\ entities = EmptyDicts

\* C6: commit and rollback called while idle raise ValueError and change
\* neither the repositories, nor the snapshots, nor the state.
C6_IdleCommitRollbackRaise ==
    [][((CallCommit \/ CallRollback) /\ ~is_active) =>
        /\ last'.result = "ValueError"
        /\ UNCHANGED <<entities, next_id, snapshots, is_active>>]_vars

\* rollback raised after the transaction had been committed, with data stored
C6_Witness ==
    /\ last = Call("rollback", "ValueError")
    /\ phase = "committed"
    /\ entities # EmptyDicts

\* C7: a successful commit makes the Unit-of-Work idle, and a further commit
\* or rollback in the same scope raises ValueError and leaves the written
\* data in the repositories.
C7_SecondCommitRaises ==
    [][/\ (CallCommit /\ is_active) => ~is_active'
       /\ ((CallCommit \/ CallRollback) /\ phase = "committed" /\ depth > 0) =>
              (last'.result = "ValueError" /\ entities' = entities)]_vars

\* the second commit in a scope has raised; the workshop saved before the
\* first commit is stored
C7_Witness ==
    /\ last = Call("commit", "ValueError")
    /\ phase = "committed"
    /\ depth = 1
    /\ Has(Store, "workshops", 1)

\* C8: begin and a successful commit leave every repository's collection
\* and id counter as they were; commit empties the snapshots and makes the
\* Unit-of-Work idle.
C8_BeginCommitKeepLiveData ==
    [][/\ (EnterScope \/ (CallCommit /\ is_active)) =>
              (entities' = entities /\ next_id' = next_id)
       /\ (CallCommit /\ is_active) =>
              (snapshots' = EmptyDicts /\ ~is_active')]_vars

\* a commit succeeded with an entity in each of the three repositories
C8_Witness ==
    /\ last = Call("commit", "ok")
    /\ \A r \in Repos : entities[r] # EmptyDict

\* C9: the id save assigns to an entity with unset id is greater than every
\* id the repository has assigned before, whatever was deleted or rolled
\* back since.
C9_AssignedIdsIncrease ==
    [][\A r \in Repos : \A e \in SampleEntities(r) :
          SaveNew(r, e) => Save(Store, r, e).entity.id > assigned[r]]_vars

\* a second id was assigned after the entity with the first one was rolled
\* back or deleted
C9_Witness ==
    /\ last = Call("save_new", "ok")
    /\ assigned.workshops = 2
    /\ DOMAIN entities.workshops = {2}
(***************************************************************************)
(* Claims about the use cases.                                             *)
(***************************************************************************)

\* C3: after every execution of CreateWorkshop, CreateBooking and
\* CancelBooking, every stored workshop has its two counters between 0 and
\* their maxima.
C3_CountersWithinCapacity ==
    \A k \in DOMAIN entities.workshops :
        LET w == entities.workshops[k]
        IN  /\ 0 <= w.current_families /\ w.current_families <= w.max_families
            /\ 0 <= w.current_children /\ w.current_children <= w.max_children

\* C4: when a repository call raises inside the transaction of CreateBooking,
\* CancelBooking or RegisterGuardian, execute returns the failure result and
\* the three repositories hold what they held before the call.
C4_FailureRestoresAll ==
    [][(last'.op \in {"CreateBooking", "CancelBooking", "RegisterGuardian"}
            /\ last'.result = "failed")
        => entities' = entities]_vars

\* CreateBooking failed after it had saved the guardian and the booking (their
\* ids are used up), and neither is stored, nor is the workshop counted up
C4_Witness ==
    /\ last = Call("CreateBooking", "failed")
    /\ next_id.guardians = 2 /\ entities.guardians = EmptyDict
    /\ next_id.bookings = 2 /\ entities.bookings = EmptyDict
    /\ Has(Store, "workshops", 1)
    /\ entities.workshops[1].current_families = 0

\* C5: a LinkBookingsToGuardians execution that fails at a later booking id
\* leaves the bookings repository as it was before the call.
C5_FailedLinkLeavesNoPartialState ==
    [][(last'.op = "LinkBookings"
            /\ last'.result \in {"booking_not_found", "already_linked"})
        => entities'.bookings = entities.bookings]_vars

\* C10: CreateBooking with a valid input for a stored workshop returns the
\* family capacity error when the families are at their maximum, a capacity
\* error when the children would exceed theirs (the child one when family
\* capacity remains); a not-found or capacity failure changes no stored
\* entity and uses up no id.  The first conjunct states, in every reachable
\* state, what an execution started there returns; the second is about
\* every CreateBooking step taken.
C10_CapacityFailures ==
    /\ [](\A in \in CreateBookingInputs :
            (ValidateCreateBooking(in) /\ Has(Store, "workshops", in.workshop_id))
            => LET w == entities.workshops[in.workshop_id]
                   full == w.current_families >= w.max_families
                   over == w.current_children + Len(in.children) > w.max_children
                   returned == CreateBookingExecute(Store, in, 0).result
               IN  /\ full => returned = "no_family_capacity"
                   /\ (over /\ ~full) => returned = "no_child_capacity"
                   /\ (~over /\ ~full) => returned = "ok")
    /\ [][(/\ last'.op = "CreateBooking"
           /\ last'.result \in {"not_found", "no_family_capacity", "no_child_capacity"})
          => (entities' = entities /\ next_id' = next_id)]_vars

\* the second booking of a workshop was refused for its children; the
\* counters are those of the first booking, which is the only one stored
C10_Witness ==
    /\ last = Call("CreateBooking", "no_child_capacity")
    /\ Has(Store, "workshops", 1)
    /\ entities.workshops[1].current_families = 1
    /\ entities.workshops[1].max_families = 2
    /\ entities.workshops[1].current_children = 1
    /\ DOMAIN entities.bookings = {1}
    /\ DOMAIN entities.guardians = {1}

C12_AuthorizeBeforeMutation ==
    /\ [](\A in \in CancelBookingInputs :
            Has(Store, "bookings", in.booking_id) =>
            LET r == CancelBookingExecute(Store, in, 0)
                own == entities.bookings[in.booking_id].guardian_id = in.canceller_id
            IN  /\ in.canceller_type = "admin" => r.result = "ok"
                /\ (in.canceller_type = "guardian" /\ own) => r.result = "ok"
                /\ (in.canceller_type = "guardian" /\ ~own) =>
                      (r.result = "unauthorized" /\ r.store.entities = entities))
    /\ [][last' = Call("CancelBooking", "unauthorized") =>
             (entities' = entities /\ next_id' = next_id)]_vars

\* guardian 2 was refused the cancellation of guardian 1's booking, which is
\* still active and still counted by its workshop
C12_Witness ==
    /\ last = Call("CancelBooking", "unauthorized")
    /\ Has(Store, "bookings", 1)
    /\ entities.bookings[1].guardian_id = 1
    /\ entities.bookings[1].status = "active"
    /\ entities.workshops[1].current_families = 1
    /\ entities.workshops[1].current_children = 1

\* C13: a successful CancelBooking of a booking with k children on workshop
\* w sets the booking's status to cancelled with the given reason, lowers
\* w.current_families by 1 and w.current_children by k, and changes no other
\* booking or workshop.
C13_CancelBookingEffect ==
    \A in \in CancelBookingInputs :
        LET r == CancelBookingExecute(Store, in, 0)
            after == r.store.entities
        IN  r.result = "ok" =>
            LET b == entities.bookings[in.booking_id]
                w == entities.workshops[b.workshop_id]
            IN  /\ after.bookings =
                       [entities.bookings EXCEPT
                           ![in.booking_id] = [b EXCEPT !.status = "cancelled",
                                                        !.cancellation_reason = in.reason]]
                /\ after.workshops =
                       [entities.workshops EXCEPT
                           ![b.workshop_id] = [w EXCEPT
                               !.current_families = @ - 1,
                               !.current_children = @ - Len(b.children)]]

\* C14: CancelBooking of a booking whose stored status is already cancelled
\* lowers neither counter of its workshop, so a second cancellation leaves
\* the counters as the first one left them.
C14_NoDoubleDecrement ==
    \A in \in CancelBookingInputs :
        (/\ Has(Store, "bookings", in.booking_id)
         /\ entities.bookings[in.booking_id].status = "cancelled")
        => CancelBookingExecute(Store, in, 0).store.entities.workshops
               = entities.workshops

\* C16: every stored workshop's current_families is the number of its stored
\* active bookings, and its current_children the number of children of those
\* bookings.
C16_CountersMatchActiveBookings ==
    \A k \in DOMAIN entities.workshops :
        LET active == {b \in DOMAIN entities.bookings :
                          /\ entities.bookings[b].workshop_id = k
                          /\ entities.bookings[b].status = "active"}
            children[S \in SUBSET active] ==
                IF S = {} THEN 0
                ELSE LET b == CHOOSE x \in S : TRUE
                     IN  Len(entities.bookings[b].children) + children[S \ {b}]
        IN  /\ entities.workshops[k].current_families = Cardinality(active)
            /\ entities.workshops[k].current_children = children[active]

\* C18: no two stored guardians have emails that are equal when compared
\* case-insensitively.
C18_OneGuardianPerEmail ==
    \A g \in DOMAIN entities.guardians : \A h \in DOMAIN entities.guardians :
        Lower(entities.guardians[g].email) = Lower(entities.guardians[h].email)
            => g = h

\* C17: RegisterGuardian with a valid email that equals, case-insensitively,
\* the email of a stored guardian returns success with that guardian's id and
\* leaves the guardians repository (and the other two) as it was.  The first
\* conjunct states, in every reachable state, what an execution started
\* there does; the second is about every successful RegisterGuardian step
\* taken: it stores one new guardian or changes nothing.
C17_RegisterExistingEmail ==
    /\ [](\A in \in AnyGuardianInputs :
            LET same == {g \in DOMAIN entities.guardians :
                            \/ entities.guardians[g].email = in.email
                            \/ {entities.guardians[g].email, in.email} = {"a@x", "A@X"}}
                r == RegisterGuardianExecute(Store, in, 0)
            IN  (ValidateRegisterGuardian(in) /\ same # {}) =>
                    /\ r.result = "ok"
                    /\ r.id \in same
                    /\ r.store.entities = entities
                    /\ r.store.next_id = next_id)
    /\ [][last' = Call("RegisterGuardian", "ok") =>
             \/ entities' = entities
             \/ \E g \in DOMAIN entities'.guardians \ DOMAIN entities.guardians :
                    entities' = [entities EXCEPT
                                    !.guardians = Put(@, g, entities'.guardians[g])]]_vars

\* a registration returned through the existing-guardian branch (it
\* returned without commit, so the snapshots of its begin are still held)
\* and the only guardian is the one registered first
C17_Witness ==
    /\ last = Call("RegisterGuardian", "ok")
    /\ DOMAIN entities.guardians = {1}
    /\ entities.guardians[1].email = "A@X"
    /\ snapshots.guardians = entities.guardians
    /\ next_id.guardians = 2

(***************************************************************************)
(* Duplicate-check model: workshops created, bookings created and          *)
(* cancelled, and PreventDuplicateBooking asked about an email and a       *)
(* workshop.                                                               *)
(***************************************************************************)
\* PreventDuplicateBookingUseCase._find_guardians_by_email, as the ids of
\* the guardians found
FindGuardiansByEmail(s, email) ==
    {g \in DOMAIN s.entities.guardians :
        Lower(s.entities.guardians[g].email) = Lower(email)}

\* PreventDuplicateBookingUseCase._has_existing_booking
HasExistingBooking(s, guardian_id, workshop_id) ==
    \E b \in GetAll(s, "bookings") :
        /\ b.guardian_id = guardian_id
        /\ b.workshop_id = workshop_id
        /\ b.status = "active"

\* PreventDuplicateBookingUseCase.execute; fail: 1 workshops.get_by_id,
\* 2 guardians.get_all, 3 the first bookings.get_all.  Every result but
\* "duplicate" has is_duplicate False.
PreventDuplicateExecute(s0, in, fail) ==
    LET s1 == Enter(s0)
    IN  IF in.guardian_email = "" \/ in.workshop_id = None
        THEN Return(s1, "invalid", None)
        ELSE IF fail = 1 THEN Raise(s1)
        ELSE IF GetById(s1, "workshops", in.workshop_id).id = None
             THEN Return(s1, "not_found", None)
        ELSE IF fail = 2 THEN Raise(s1)
        ELSE LET guardians == FindGuardiansByEmail(s1, in.guardian_email)
             IN  IF guardians = {} THEN Return(s1, "not_duplicate", None)
                 ELSE IF fail = 3 THEN Raise(s1)
                 ELSE IF \E g \in guardians : HasExistingBooking(s1, g, in.workshop_id)
                      THEN Return(s1, "duplicate", None)
                 ELSE Return(s1, "not_duplicate", None)

\* the questions asked: emails in lower case, workshop ids stored or not
PreventDuplicateInputs ==
    [guardian_email : {"a@x", "b@x", ""}, workshop_id : 0..MaxId]

PreventDuplicate(in, fail) ==
    Executed("PreventDuplicate", PreventDuplicateExecute(Store, in, fail))

DoPreventDuplicate ==
    \E in \in PreventDuplicateInputs : \E fail \in 0..3 : PreventDuplicate(in, fail)

\* CreateWorkshop with the greatest capacities, for up to MaxId workshops
DupCreateWorkshop ==
    /\ next_id.workshops <= MaxId
    /\ Executed("CreateWorkshop",
                CreateWorkshopExecute(Store, [max_families |-> MaxFamilies,
                                              max_children |-> MaxChildren], 0))

\* CreateBooking of one child by a guardian who writes the email in upper
\* case, or by another guardian
DupCreateBooking ==
    \E w \in 1..MaxId : \E email \in {"A@X", "b@x"} :
        CreateBooking([workshop_id |-> w, guardian_email |-> email,
                       children |-> <<[name |-> "c", age |-> 5]>>], 0)

\* CancelBooking by an admin
DupCancelBooking ==
    \E b \in 1..MaxBookings :
        CancelBooking([booking_id |-> b, canceller_id |-> 1,
                       canceller_type |-> "admin", reason |-> "ill"], 0)

NextDup ==
    \/ DupCreateWorkshop
    \/ DupCreateBooking
    \/ DupCancelBooking
    \/ DoPreventDuplicate

SpecDup == Init /\ [][NextDup]_vars

\* C15: PreventDuplicateBooking(email, w) for a stored workshop w reports a
\* duplicate exactly when some stored guardian whose email equals the given
\* one up to case has a stored active booking for w; it changes no stored
\* entity.  The first conjunct states, in every reachable state, what an
\* execution started there reports; the second is about every step taken.
C15_DuplicateIffActiveBooking ==
    /\ [](\A in \in PreventDuplicateInputs :
            (in.guardian_email # "" /\ Has(Store, "workshops", in.workshop_id)) =>
            LET same == {g \in DOMAIN entities.guardians :
                            \/ entities.guardians[g].email = in.guardian_email
                            \/ {entities.guardians[g].email, in.guardian_email}
                                   = {"a@x", "A@X"}}
                booked == \E b \in DOMAIN entities.bookings :
                              /\ entities.bookings[b].guardian_id \in same
                              /\ entities.bookings[b].workshop_id = in.workshop_id
                              /\ entities.bookings[b].status = "active"
                r == PreventDuplicateExecute(Store, in, 0)
            IN  /\ r.result \in {"duplicate", "not_duplicate"}
                /\ r.result = "duplicate" <=> booked
                /\ r.store.entities = entities)
    /\ [][last'.op = "PreventDuplicate" =>
             (entities' = entities /\ next_id' = next_id)]_vars

\* asked in lower case about the guardian who booked as "A@X": a duplicate
\* is reported for workshop 1, where her booking is active, while her
\* booking for workshop 2 is cancelled
C15_Witness ==
    /\ last = Call("PreventDuplicate", "duplicate")
    /\ DOMAIN entities.bookings = {1, 2}
    /\ \A g \in DOMAIN entities.guardians : entities.guardians[g].email = "A@X"
    /\ \E b \in {1, 2} :
          /\ entities.bookings[b].workshop_id = 1
          /\ entities.bookings[b].status = "active"
          /\ entities.bookings[3 - b].workshop_id = 2
          /\ entities.bookings[3 - b].status = "cancelled"

(***************************************************************************)
(* execute_in_transaction model: a caller that passes functions writing    *)
(* through the repositories to core/unit_of_work.execute_in_transaction.   *)
(***************************************************************************)
\* the repositories the passed functions write to
FunctionRepos == {"workshops", "guardians"}

\* the repository calls a passed function makes
FunctionWrites ==
    {[kind |-> "save_new", r |-> r, id |-> None] : r \in FunctionRepos}
        \cup [kind : {"save_at", "delete"}, r : FunctionRepos, id : 1..MaxId]

\* the passed functions: up to two repository calls, then `return` of the id
\* of the entity saved last (None when it saved none) or `raise`
Functions ==
    [writes : {<<>>} \cup {<<a>> : a \in FunctionWrites}
                     \cup {<<a, b>> : a \in FunctionWrites, b \in FunctionWrites},
     raises : BOOLEAN]

\* the entity a passed function saves in repository r
WriteEntity(r) ==
    CASE r = "workshops" -> WorkshopEntity(None, 1, 1, 0, 0)
      [] r = "bookings"  -> BookingEntity(None, 1, 1, <<Child("c", 5)>>, "active", "none")
      [] r = "guardians" -> GuardianEntity(None, "a@x")

\* function(uow): the calls from the i-th on, as the store afterwards and
\* the value the function has to return
RECURSIVE RunFunction(_, _, _, _)
RunFunction(s, calls, i, value) ==
    IF i > Len(calls) THEN [store |-> s, value |-> value]
    ELSE LET w == calls[i]
         IN  IF w.kind = "delete"
             THEN RunFunction(Delete(s, w.r, w.id), calls, i + 1, value)
             ELSE LET saved == Save(s, w.r, [WriteEntity(w.r) EXCEPT !.id = w.id])
                  IN  RunFunction(saved.store, calls, i + 1, saved.entity.id)

\* execute_in_transaction(uow, function): the store afterwards, whether it
\* returned or which exception left it, the value returned, and whether
\* uow.commit() was called
ExecuteInTransaction(s0, fn) ==
    LET s1 == Enter(s0)
        ran == RunFunction(s1, fn.writes, 1, None)
    IN  IF fn.raises
        THEN [store |-> Exit(ran.store, TRUE),
              outcome |-> IF ExitRaises(ran.store, TRUE) THEN "ValueError"
                          ELSE "function_error",
              value |-> None, committed |-> FALSE]
        ELSE IF RaisesInvalidState(ran.store)
        THEN [store |-> Exit(ran.store, TRUE), outcome |-> "ValueError",
              value |-> None, committed |-> TRUE]
        ELSE [store |-> Exit(Commit(ran.store), FALSE), outcome |-> "returned",
              value |-> ran.value, committed |-> TRUE]

CallExecuteInTransaction(fn) ==
    /\ \A r \in Repos : next_id[r] <= MaxId
    /\ Apply(ExecuteInTransaction(Store, fn).store)
    /\ last' = Call("execute_in_transaction", ExecuteInTransaction(Store, fn).outcome)
    /\ UNCHANGED <<depth, phase, begun, assigned, writes, heap>>

NextTxn == \E fn \in Functions : CallExecuteInTransaction(fn)

SpecTxn == Init /\ [][NextTxn]_vars

\* C20: execute_in_transaction with a function that returns leaves the
\* function's writes in the repositories, returns the function's value and
\* leaves the Unit-of-Work idle; with a function that raises, the function's
\* exception reaches the caller, commit is not called and the repositories
\* hold what they held before the call.  The first conjunct states, in every
\* reachable state, what a call made there does; the second is about every
\* call made.
C20_ExecuteInTransaction ==
    /\ [](\A fn \in Functions :
            LET r == ExecuteInTransaction(Store, fn)
                ran == RunFunction(Store, fn.writes, 1, None)
            IN  /\ ~r.store.is_active
                /\ ~fn.raises =>
                      /\ r.outcome = "returned"
                      /\ r.committed
                      /\ r.value = ran.value
                      /\ r.store.entities = ran.store.entities
                      /\ r.store.next_id = ran.store.next_id
                /\ fn.raises =>
                      /\ r.outcome = "function_error"
                      /\ ~r.committed
                      /\ r.store.entities = entities)
    /\ [][/\ last'.op = "execute_in_transaction" => ~is_active'
          /\ last' = Call("execute_in_transaction", "function_error") =>
                entities' = entities]_vars

\* a function saved a workshop and raised: the workshop is gone and its id
\* used up, and the guardian an earlier function saved and returned is stored
C20_Witness ==
    /\ last = Call("execute_in_transaction", "function_error")
    /\ entities.workshops = EmptyDict
    /\ next_id.workshops = 2
    /\ DOMAIN entities.guardians = {1}
    /\ next_id.guardians = 2

(***************************************************************************)
(* Object-level model of one repository and its snapshot: heap.objs are    *)
(* the entity objects ever created (an object's address is its index),     *)
(* heap.live is _entities and heap.snap the snapshot dict, both from id to *)
(* address, heap.held are the objects the caller has a reference to.       *)
(* deepcopy creates a new object with the same fields.                     *)
(***************************************************************************)
\* the addresses a dict refers to
Referred(d) == {d[k] : k \in DOMAIN d}

\* the other variables belong to the value-level models
HeapOnly == UNCHANGED <<entities, next_id, snapshots, is_active, depth, last,
                        phase, begun, assigned, writes>>

\* the caller constructs an entity: Entity(id=None, ...)
HeapNew ==
    /\ Len(heap.objs) < MaxObjects
    /\ heap' = [heap EXCEPT !.objs = Append(@, [id |-> None, v |-> 0]),
                            !.held = @ \cup {Len(heap.objs) + 1}]
    /\ HeapOnly

\* the caller assigns to a field of an object it holds
HeapMutate(a) ==
    /\ heap.objs[a].v = 0
    /\ heap' = [heap EXCEPT !.objs[a].v = 1]
    /\ HeapOnly

\* repository.save(entity) with the held object a: the stored object and
\* the returned object are two new copies
HeapSave(a) ==
    /\ Len(heap.objs) + 2 <= MaxObjects
    /\ heap.objs[a].id = None => heap.next_id <= MaxId
    /\ LET unset == heap.objs[a].id = None
           entity_copy == IF unset THEN [heap.objs[a] EXCEPT !.id = heap.next_id]
                          ELSE heap.objs[a]
           stored == Len(heap.objs) + 1
           returned == Len(heap.objs) + 2
       IN  heap' = [heap EXCEPT
                       !.objs = Append(Append(@, entity_copy), entity_copy),
                       !.live = Put(@, entity_copy.id, stored),
                       !.held = @ \cup {returned},
                       !.next_id = IF unset THEN @ + 1 ELSE @]
    /\ HeapOnly

\* repository.get_by_id(id) of a stored id: the caller gets a new copy
HeapGetById(id) ==
    /\ id \in DOMAIN heap.live
    /\ Len(heap.objs) < MaxObjects
    /\ heap' = [heap EXCEPT !.objs = Append(@, heap.objs[heap.live[id]]),
                            !.held = @ \cup {Len(heap.objs) + 1}]
    /\ HeapOnly

\* [deepcopy(entity) for entity in self._entities.values()], for the
\* entities with the given ids
RECURSIVE Copies(_, _)
Copies(h, ids) ==
    IF ids = {} THEN <<>>
    ELSE LET least == CHOOSE k \in ids : \A j \in ids : k <= j
         IN  <<h.objs[h.live[least]]>> \o Copies(h, ids \ {least})

\* get_all, get_by_workshop_id, get_by_guardian_id: a list of new copies of
\* all stored entities
HeapGetAll ==
    /\ heap.live # EmptyDict
    /\ Len(heap.objs) + Cardinality(DOMAIN heap.live) <= MaxObjects
    /\ LET copies == Copies(heap, DOMAIN heap.live)
       IN  heap' = [heap EXCEPT
                       !.objs = @ \o copies,
                       !.held = @ \cup (Len(heap.objs) + 1 .. Len(heap.objs) + Len(copies))]
    /\ HeapOnly

\* repository.delete(id)
HeapDelete(id) ==
    /\ id \in DOMAIN heap.live
    /\ heap' = [heap EXCEPT !.live = Remove(@, id)]
    /\ HeapOnly

\* uow.__enter__: the snapshot dict is built from the items of _entities and
\* refers to the stored objects themselves
HeapEnter ==
    /\ ~heap.active
    /\ heap' = [heap EXCEPT !.snap = heap.live, !.active = TRUE]
    /\ HeapOnly

\* uow.commit() while active
HeapCommit ==
    /\ heap.active
    /\ heap' = [heap EXCEPT !.snap = EmptyDict, !.active = FALSE]
    /\ HeapOnly

\* uow.rollback() while active: _entities becomes the snapshot dict
HeapRollback ==
    /\ heap.active
    /\ heap' = [heap EXCEPT !.live = heap.snap, !.snap = EmptyDict, !.active = FALSE]
    /\ HeapOnly

NextHeap ==
    \/ HeapNew
    \/ \E a \in heap.held : HeapMutate(a)
    \/ \E a \in heap.held : HeapSave(a)
    \/ \E id \in 1..MaxId : HeapGetById(id)
    \/ HeapGetAll
    \/ \E id \in 1..MaxId : HeapDelete(id)
    \/ HeapEnter
    \/ HeapCommit
    \/ HeapRollback

SpecHeap == Init /\ [][NextHeap]_vars

\* C19: assigning to a field of an object the caller holds (one returned by
\* get_by_id, get_all or save, or one passed to save) changes no stored
\* entity, and the stored objects are never objects the caller holds nor
\* objects the snapshot refers to.
C19_CopyIsolation ==
    /\ [][(\E a \in heap.held : HeapMutate(a)) =>
             /\ heap'.live = heap.live
             /\ \A id \in DOMAIN heap.live :
                    heap'.objs[heap.live[id]] = heap.objs[heap.live[id]]]_vars
    /\ [](Referred(heap.live) \cap heap.held = {})
    /\ [](Referred(heap.live) \cap Referred(heap.snap) = {})

(***************************************************************************)
(* Further claims about the Unit-of-Work (under SpecScope).                *)
(***************************************************************************)

\* C21: a scope entered while idle that exits normally, with no commit,
\* rollback or further begin inside it, leaves the Unit-of-Work active.
C21_NormalExitLeavesActive ==
    [][(ExitNormally /\ depth = 1 /\ phase = "clean") => is_active']_vars

\* a workshop was saved, a scope entered, a guardian saved in it, and the
\* scope left normally without commit: both are stored, the snapshots of the
\* begin (the workshop alone) are still held, the Unit-of-Work is idle
C21_Witness ==
    /\ last = Call("exit", "ok")
    /\ depth = 0
    /\ ~is_active
    /\ DOMAIN entities.workshops = {1}
    /\ DOMAIN entities.guardians = {1}
    /\ snapshots.workshops = entities.workshops
    /\ snapshots.guardians = EmptyDict

\* C22: a begin while a transaction is active is accepted and replaces the
\* snapshots by the current contents of the repositories; a rollback after
\* it puts the repositories back to their contents at that second begin.
C22_SecondBeginOverwritesSnapshots ==
    [][/\ (EnterScope /\ is_active) =>
              /\ last' = Call("enter", "ok")
              /\ is_active'
              /\ snapshots' = entities
              /\ entities' = entities
       /\ (CallRollback /\ is_active /\ phase = "rebegun") =>
              (entities' = begun /\ last' = Call("rollback", "ok"))]_vars

\* inside two nested scopes, a workshop was saved before the second begin
\* and a guardian after it; the rollback has undone the guardian and left
\* the workshop
C22_Witness ==
    /\ last = Call("rollback", "ok")
    /\ depth = 2
    /\ writes = 2
    /\ DOMAIN entities.workshops = {1}
    /\ entities.guardians = EmptyDict
    /\ next_id.guardians = 2


(***************************************************************************)
(* Further claims about the use cases                                      *)
(***************************************************************************)
\* C23: an invalid input to CreateBooking, RegisterGuardian,
\* LinkBookingsToGuardians, CreateWorkshop or PreventDuplicateBooking yields
\* the failure result for invalid input and leaves the Unit-of-Work as it
\* was: no begin is taken (the snapshots and the active flag are those of
\* before) and nothing is stored.  Stated, in every reachable state, about
\* an execution started there.
C23_ValidationBeforeTransaction ==
    /\ \A in \in CreateBookingInputs :
           ~ValidateCreateBooking(in) =>
               CreateBookingExecute(Store, in, 0) = Result(Store, "invalid", None)
    /\ \A in \in RegisterGuardianInputs :
           ~ValidateRegisterGuardian(in) =>
               RegisterGuardianExecute(Store, in, 0) = Result(Store, "invalid", None)
    /\ \A in \in LinkBookingsInputs :
           ~ValidateLinkBookings(in) =>
               LinkBookingsExecute(Store, in, 0) = Result(Store, "invalid", None)
    /\ \A in \in CreateWorkshopInputs :
           ~ValidateCreateWorkshop(in) =>
               CreateWorkshopExecute(Store, in, 0) = Result(Store, "invalid", None)
    /\ \A in \in PreventDuplicateInputs :
           (in.guardian_email = "" \/ in.workshop_id = None) =>
               PreventDuplicateExecute(Store, in, 0) = Result(Store, "invalid", None)

\* PreventDuplicateBooking has answered an invalid question while a workshop
\* and a booking were stored: its begin has taken snapshots of them
C23_Witness ==
    /\ last = Call("PreventDuplicate", "invalid")
    /\ ~is_active
    /\ DOMAIN entities.workshops = {1} /\ DOMAIN entities.bookings = {1}
    /\ snapshots = entities


\* mutant: the notifications go out twice
SendNotificationsTwice(t, guardian) ==
    t \o <<"guardian_notification", "admin_notification",
           "guardian_notification", "admin_notification">>

\* steps 6 and 7 of CancelBookingUseCase.execute after the guardian has been
\* read: _send_guardian_notification when a guardian was found, then
\* _send_admin_notification
SendNotifications(t, guardian) ==
    t \o (IF guardian.id # None THEN <<"guardian_notification">> ELSE <<>>)
      \o <<"admin_notification">>

\* CancelBookingUseCase.execute as the sequence of the calls that returned,
\* in the order of the code, ended by the result; a call that raises is not
\* in the sequence.  fail as in CancelBookingExecute.
CancelBookingSteps(s0, in, fail) ==
    LET s1 == Enter(s0)
        booking == GetById(s1, "bookings", in.booking_id)
    IN  IF fail = 1 THEN <<"failed">>
        ELSE IF booking.id = None THEN <<"bookings.get_by_id", "not_found">>
        ELSE IF ~ValidateCanceller(booking, in)
             THEN <<"bookings.get_by_id", "unauthorized">>
        ELSE IF fail = 2 THEN <<"bookings.get_by_id", "failed">>
        ELSE
        LET workshop == GetById(s1, "workshops", booking.workshop_id)
            t2 == <<"bookings.get_by_id", "workshops.get_by_id">>
        IN  IF workshop.id = None THEN t2 \o <<"workshop_not_found">>
            ELSE IF fail = 3 THEN t2 \o <<"failed">>
            ELSE IF fail = 4 THEN t2 \o <<"workshops.save", "failed">>
            ELSE
            LET t4 == t2 \o <<"workshops.save", "bookings.save">>
                guardian == GetById(s1, "guardians", booking.guardian_id)
            IN  IF fail = 5 THEN t4 \o <<"failed">>
                ELSE LET t7 == SendNotifications(t4 \o <<"guardians.get_by_id">>, guardian)
                     IN  IF RaisesInvalidState(s1) THEN t7 \o <<"failed">>
                         ELSE t7 \o <<"commit", "ok">>

Notifications == {"guardian_notification", "admin_notification"}

\* C24: in every CancelBooking execution, each notification is dispatched at
\* most once, only after the workshop save and the booking save of that
\* execution have returned and before commit is called; none is dispatched
\* when the execution ends with not-found or unauthorized, and a successful
\* execution has dispatched the admin notification.  Stated, in every
\* reachable state, about an execution started there.
C24_NotificationsAfterSavesBeforeCommit ==
    \A in \in CancelBookingInputs : \A fail \in 0..5 :
        LET t == CancelBookingSteps(Store, in, fail)
            r == CancelBookingExecute(Store, in, fail)
            at(n) == {i \in 1..Len(t) : t[i] = n}
        IN  /\ t[Len(t)] = r.result
            /\ \A n \in Notifications :
                   /\ Cardinality(at(n)) <= 1
                   /\ \A i \in at(n) :
                          /\ \E j \in at("workshops.save") : j < i
                          /\ \E j \in at("bookings.save") : j < i
                          /\ \A j \in at("commit") : i < j
            /\ r.result \in {"not_found", "unauthorized"} =>
                   \A n \in Notifications : at(n) = {}
            /\ r.result = "ok" => at("admin_notification") # {}

\* the second booking has just been cancelled while its guardian is stored,
\* so both notifications were dispatched; the first booking is still active
C24_Witness ==
    /\ last = Call("CancelBooking", "ok")
    /\ DOMAIN entities.bookings = {1, 2}
    /\ entities.bookings[2].status = "cancelled"
    /\ entities.bookings[1].status = "active"
    /\ Has(Store, "guardians", entities.bookings[2].guardian_id)


(***************************************************************************)
(* Retention model: the use-case model with bookings also linked to        *)
(* guardians.                                                              *)
(***************************************************************************)
\* LinkBookingsToGuardians asked to link one booking to one guardian
RetainLinkBookings ==
    \E g \in 1..MaxBookings : \E b \in 1..MaxBookings : \E fail \in 0..3 :
        LinkBookings([guardian_id |-> g, booking_ids |-> <<b>>], fail)

\* CreateWorkshop with the greatest capacities
RetainCreateWorkshop ==
    CreateWorkshop([max_families |-> MaxFamilies, max_children |-> MaxChildren], 0)

\* CreateBooking of one child in the first workshop, which succeeds or fails
\* at its last save
RetainCreateBooking ==
    \E email \in {"a@x", "b@x"} : \E fail \in {0, 4} :
        CreateBooking([workshop_id |-> 1, guardian_email |-> email,
                       children |-> <<[name |-> "c", age |-> 5]>>], fail)

NextRetain ==
    \/ RetainCreateWorkshop
    \/ RetainCreateBooking
    \/ DoCancelBooking
    \/ DoRegisterGuardian
    \/ RetainLinkBookings

SpecRetain == Init /\ [][NextRetain]_vars


\* C25: a stored booking with status cancelled is still stored, still
\* cancelled and still returned by get_all after every execution of
\* CreateBooking, CancelBooking, RegisterGuardian or LinkBookingsToGuardians,
\* whatever its outcome.
C25_CancelledIsTerminal ==
    [][\A b \in DOMAIN entities.bookings :
          entities.bookings[b].status = "cancelled" =>
              /\ Has(Store', "bookings", b)
              /\ GetById(Store', "bookings", b).status = "cancelled"
              /\ \E x \in GetAll(Store', "bookings") :
                     x.id = b /\ x.status = "cancelled"]_vars

\* the first booking is cancelled, the second is active, and a
\* LinkBookingsToGuardians execution has committed after the cancellation
C25_Witness ==
    /\ last = Call("LinkBookings", "ok")
    /\ DOMAIN entities.bookings = {1, 2}
    /\ entities.bookings[1].status = "cancelled"
    /\ entities.bookings[2].status = "active"
    /\ \E k \in DOMAIN entities.workshops :
           entities.workshops[k].current_families = 1


(***************************************************************************)
(* Deletion model: DeleteWorkshop, which works on a workshop repository    *)
(* and a booking repository directly, outside every Unit-of-Work scope.    *)
(***************************************************************************)
\* InMemoryBookingRepository.get_by_workshop_id, as the ids of the bookings
\* found
GetByWorkshopId(s, workshop_id) ==
    {b \in DOMAIN s.entities.bookings :
        s.entities.bookings[b].workshop_id = workshop_id}

\* get_guardian_for_booking of the booking repository handed to
\* DeleteWorkshop: the guardian of the booking, or None
GetGuardianForBooking(s, booking_id) ==
    IF ~Has(s, "bookings", booking_id) THEN [id |-> None]
    ELSE GetById(s, "guardians", s.entities.bookings[booking_id].guardian_id)

\* DeleteWorkshopUseCase._validate_input
ValidateDeleteWorkshop(in) == in.workshop_id > 0

\* the second loop of DeleteWorkshopUseCase.execute from the k-th booking on:
\* the bookings left are deleted in the order of their ids; raise_at is the
\* number of the delete call that raises (0: none).  Gives the store and
\* whether a call has raised.
RECURSIVE DeleteBookings(_, _, _, _)
DeleteBookings(s, ids, k, raise_at) ==
    IF ids = {} THEN [store |-> s, raised |-> FALSE]
    ELSE IF k = raise_at THEN [store |-> s, raised |-> TRUE]
    ELSE LET b == CHOOSE x \in ids : \A y \in ids : x <= y
         IN  DeleteBookings(Delete(s, "bookings", b), ids \ {b}, k + 1, raise_at)

\* DeleteWorkshopUseCase.execute; fail: 1 workshops.get_by_id,
\* 2 get_by_workshop_id, 3 the first get_guardian_for_booking,
\* 4 workshops.delete, 4 + k the k-th bookings.delete.  No Unit-of-Work is
\* involved: what was deleted before an exception stays deleted.
DeleteWorkshopExecute(s0, in, fail) ==
    IF ~ValidateDeleteWorkshop(in) THEN Result(s0, "invalid", None)
    ELSE IF fail = 1 THEN Result(s0, "failed", None)
    ELSE
    LET workshop == GetById(s0, "workshops", in.workshop_id)
    IN  IF workshop.id = None THEN Result(s0, "not_found", None)
        ELSE IF fail = 2 THEN Result(s0, "failed", None)
        ELSE
        LET bookings == GetByWorkshopId(s0, workshop.id)
        IN  IF bookings # {} /\ fail = 3 THEN Result(s0, "failed", None)
            ELSE IF \E b \in bookings : GetGuardianForBooking(s0, b).id = None
                 THEN Result(s0, "failed", None)
            ELSE
            LET d == DeleteBookings(s0, bookings, 1, IF fail > 4 THEN fail - 4 ELSE 0)
            IN  IF d.raised THEN Result(d.store, "failed", None)
                ELSE IF fail = 4 THEN Result(d.store, "failed", None)
                ELSE Result(Delete(d.store, "workshops", workshop.id), "ok", workshop.id)

DeleteWorkshopInputs == [workshop_id : 0..MaxId]

DeleteWorkshop(in, fail) ==
    Executed("DeleteWorkshop", DeleteWorkshopExecute(Store, in, fail))

DoDeleteWorkshop ==
    \E in \in DeleteWorkshopInputs : \E fail \in 0..(4 + MaxBookings) :
        DeleteWorkshop(in, fail)

NextDelete ==
    \/ DupCreateWorkshop
    \/ DupCreateBooking
    \/ DoDeleteWorkshop

SpecDelete == Init /\ [][NextDelete]_vars

\* C26: after DeleteWorkshop returns success for workshop w, w is not stored
\* and no stored booking has workshop_id = w, while the bookings of other
\* workshops are as before; when it returns a failure, the workshops and
\* the bookings stored are those of before.  Stated, in every reachable
\* state, about an execution started there.
C26_DeleteWorkshopCascades ==
    \A in \in DeleteWorkshopInputs : \A fail \in 0..(4 + MaxBookings) :
        LET r == DeleteWorkshopExecute(Store, in, fail)
            w == in.workshop_id
            after == r.store.entities
        IN  /\ r.result = "ok" =>
                   /\ w \notin DOMAIN after.workshops
                   /\ \A b \in DOMAIN after.bookings : after.bookings[b].workshop_id # w
                   /\ \A b \in DOMAIN entities.bookings :
                          entities.bookings[b].workshop_id # w =>
                              /\ b \in DOMAIN after.bookings
                              /\ after.bookings[b] = entities.bookings[b]
                   /\ \A k \in DOMAIN entities.workshops :
                          k # w => (k \in DOMAIN after.workshops
                                    /\ after.workshops[k] = entities.workshops[k])
            /\ r.result # "ok" =>
                   /\ after.workshops = entities.workshops
                   /\ after.bookings = entities.bookings

\* DeleteWorkshop has returned a failure; the first workshop is still stored
\* and counts a family, but the booking that was created for it is gone
C26_Witness ==
    /\ last = Call("DeleteWorkshop", "failed")
    /\ DOMAIN entities.workshops = {1}
    /\ entities.workshops[1].current_families = 1
    /\ entities.bookings = EmptyDict
    /\ next_id.bookings = 2


\* C27: after any sequence of CreateWorkshop, RegisterGuardian, CreateBooking
\* and CancelBooking executions from empty repositories, every stored
\* booking names a stored workshop and a stored guardian and has at least
\* one child.
C27_ReferentialConsistency ==
    \A b \in DOMAIN entities.bookings :
        LET booking == entities.bookings[b]
        IN  /\ Has(Store, "workshops", booking.workshop_id)
            /\ Has(Store, "guardians", booking.guardian_id)
            /\ Len(booking.children) >= 1

\* one booking, for the greatest number of children, is stored and
\* cancelled, and a CreateBooking execution has just failed
C27_Witness ==
    /\ last = Call("CreateBooking", "failed")
    /\ DOMAIN entities.bookings = {1}
    /\ entities.bookings[1].status = "cancelled"
    /\ Len(entities.bookings[1].children) = MaxChildren


\* C28: whichever repository call, or the commit, raises inside the
\* transaction body of CreateBooking, CancelBooking, RegisterGuardian,
\* LinkBookingsToGuardians or PreventDuplicateBooking (which never commits),
\* and whatever the input, execute returns the
\* failure result that reports the exception; when the raising call is not
\* reached, execute ends as it does without it.  Stated, in every reachable
\* state, about an execution started there.
C28_FailuresAreResults ==
    /\ \A in \in CreateBookingInputs : \A fail \in 1..4 \cup {CommitRaises} :
           LET r == CreateBookingExecute(Store, in, fail)
           IN  r.result = "failed" \/ r = CreateBookingExecute(Store, in, 0)
    /\ \A in \in CancelBookingInputs : \A fail \in 1..5 \cup {CommitRaises} :
           LET r == CancelBookingExecute(Store, in, fail)
           IN  r.result = "failed" \/ r = CancelBookingExecute(Store, in, 0)
    /\ \A in \in RegisterGuardianInputs : \A fail \in 1..2 \cup {CommitRaises} :
           LET r == RegisterGuardianExecute(Store, in, fail)
           IN  r.result = "failed" \/ r = RegisterGuardianExecute(Store, in, 0)
    /\ \A in \in LinkBookingsInputs : \A fail \in 1..5 \cup {CommitRaises} :
           LET r == LinkBookingsExecute(Store, in, fail)
           IN  r.result = "failed" \/ r = LinkBookingsExecute(Store, in, 0)
    /\ \A in \in PreventDuplicateInputs : \A fail \in 1..3 :
           LET r == PreventDuplicateExecute(Store, in, fail)
           IN  r.result = "failed" \/ r = PreventDuplicateExecute(Store, in, 0)


\* a LinkBookingsToGuardians execution has just failed on a raising
\* repository call while a cancelled booking and its guardian were stored
C28_Witness ==
    /\ last = Call("LinkBookings", "failed")
    /\ DOMAIN entities.bookings = {1}
    /\ entities.bookings[1].status = "cancelled"
    /\ DOMAIN entities.guardians = {1}
    /\ ~is_active


(***************************************************************************)
(* Further claims about the repositories (under SpecScope)                 *)
(***************************************************************************)
\* C29: delete(id) returns false when nothing is stored under id and then
\* changes neither the collections nor the id counters; it returns true
\* when an entity is stored under id and then removes that entity and
\* nothing else.  The first conjunct states, in every reachable state, what
\* a delete called there does; the second is about every delete step taken.
C29_DeleteAbsentIsFalse ==
    /\ [](\A r \in Repos : \A id \in 1..MaxId :
            LET s == Delete(Store, r, id)
            IN  /\ s.next_id = next_id
                /\ \A q \in Repos \ {r} : s.entities[q] = entities[q]
                /\ DOMAIN s.entities[r] = DOMAIN entities[r] \ {id}
                /\ \A k \in DOMAIN s.entities[r] : s.entities[r][k] = entities[r][k]
                /\ ~Has(Store, r, id) => s = Store)
    /\ [][/\ last' = Call("delete", "false") =>
                 (entities' = entities /\ next_id' = next_id)
          /\ last' = Call("delete", "true") =>
                 /\ next_id' = next_id
                 /\ \E r \in Repos : \E id \in DOMAIN entities[r] :
                        entities' = [entities EXCEPT ![r] = Remove(@, id)]]_vars

\* two workshops were saved and the first was deleted: the second is still
\* stored and the counter has not moved back
C29_Witness ==
    /\ last = Call("delete", "true")
    /\ DOMAIN entities.workshops = {2}
    /\ next_id.workshops = 3
    /\ entities.guardians = EmptyDict /\ entities.bookings = EmptyDict


(***************************************************************************)
(* Availability model: workshops created and UpdateWorkshopAvailability    *)
(* applied to them.  The use case works on a workshop repository directly, *)
(* outside every Unit-of-Work scope.                                       *)
(***************************************************************************)
\* update of the workshop repository handed to UpdateWorkshopAvailability:
\* the workshop is stored under its id
Update(s, r, e) == [s EXCEPT !.entities[r] = Put(@, e.id, e)]

\* UpdateWorkshopAvailabilityUseCase._validate_input
ValidateUpdateAvailability(in) ==
    /\ in.workshop_id > 0
    /\ ~(in.family_slots_change = 0 /\ in.child_slots_change = 0)

\* mutant: one slot more than the maximum is let through
ExceedsOffByOne(value, maximum) == value > maximum + 1

\* the comparisons of a new counter value with its maximum in
\* UpdateWorkshopAvailabilityUseCase.execute
Exceeds(value, maximum) == value > maximum

\* UpdateWorkshopAvailabilityUseCase.execute; fail: 1 get_by_id, 2 update
UpdateAvailabilityExecute(s0, in, fail) ==
    IF ~ValidateUpdateAvailability(in) THEN Result(s0, "invalid", None)
    ELSE IF fail = 1 THEN Result(s0, "failed", None)
    ELSE
    LET workshop == GetById(s0, "workshops", in.workshop_id)
    IN  IF workshop.id = None THEN Result(s0, "not_found", None)
        ELSE
        LET new_current_families == workshop.current_families - in.family_slots_change
            new_current_children == workshop.current_children - in.child_slots_change
        IN  IF new_current_families < 0 THEN Result(s0, "negative_families", None)
            ELSE IF new_current_children < 0 THEN Result(s0, "negative_children", None)
            ELSE IF Exceeds(new_current_families, workshop.max_families)
                 THEN Result(s0, "no_family_slots", None)
            ELSE IF Exceeds(new_current_children, workshop.max_children)
                 THEN Result(s0, "no_child_slots", None)
            ELSE IF fail = 2 THEN Result(s0, "failed", None)
            ELSE Result(Update(s0, "workshops",
                               [workshop EXCEPT !.current_families = new_current_families,
                                                !.current_children = new_current_children]),
                        "ok", workshop.id)

UpdateAvailabilityInputs ==
    [workshop_id : 0..MaxId,
     family_slots_change : (-MaxFamilies)..MaxFamilies,
     child_slots_change : (-MaxChildren)..MaxChildren]

UpdateAvailability(in, fail) ==
    Executed("UpdateWorkshopAvailability", UpdateAvailabilityExecute(Store, in, fail))

DoUpdateAvailability ==
    \E in \in UpdateAvailabilityInputs : \E fail \in 0..2 : UpdateAvailability(in, fail)

NextAvailability ==
    \/ DoCreateWorkshop
    \/ DoUpdateAvailability

SpecAvailability == Init /\ [][NextAvailability]_vars

\* C30: UpdateWorkshopAvailability(w, df, dc) either succeeds, and then the
\* stored workshop has current_families - df and current_children - dc, both
\* within [0, max], and nothing else has changed, or returns a failure and
\* leaves everything stored as it was; it fails whenever a new value would
\* be negative or above its maximum.  The first conjunct states, in every
\* reachable state, what an execution started there does; the second is
\* about every execution step taken.
C30_UpdateAvailabilityKeepsBounds ==
    /\ [](\A in \in UpdateAvailabilityInputs : \A fail \in 0..2 :
            LET r == UpdateAvailabilityExecute(Store, in, fail)
                w == in.workshop_id
                old == GetById(Store, "workshops", w)
                nf == old.current_families - in.family_slots_change
                nc == old.current_children - in.child_slots_change
            IN  /\ r.result = "ok" =>
                       /\ Has(Store, "workshops", w)
                       /\ r.store = [Store EXCEPT
                              !.entities.workshops[w].current_families = nf,
                              !.entities.workshops[w].current_children = nc]
                       /\ 0 <= nf /\ nf <= old.max_families
                       /\ 0 <= nc /\ nc <= old.max_children
                /\ r.result # "ok" => r.store = Store
                /\ (Has(Store, "workshops", w)
                      /\ (nf < 0 \/ nc < 0 \/ nf > old.max_families
                                            \/ nc > old.max_children))
                       => r.result # "ok")
    /\ [][last'.op = "UpdateWorkshopAvailability" =>
             /\ last'.result # "ok" => entities' = entities
             /\ \A k \in DOMAIN entities'.workshops :
                    LET x == entities'.workshops[k]
                    IN  /\ 0 <= x.current_families /\ x.current_families <= x.max_families
                        /\ 0 <= x.current_children /\ x.current_children <= x.max_children]_vars

\* an update has just succeeded and the workshop is full of families, with
\* one child fewer than its maximum
C30_Witness ==
    /\ last = Call("UpdateWorkshopAvailability", "ok")
    /\ Has(Store, "workshops", 1)
    /\ entities.workshops[1].max_families = MaxFamilies
    /\ entities.workshops[1].current_families = MaxFamilies
    /\ entities.workshops[1].max_children = MaxChildren
    /\ entities.workshops[1].current_children = MaxChildren - 1


(***************************************************************************)
(* Capacity model: a workshop created, booked, cancelled and edited, and   *)
(* PreventOverbooking asked about it.  EditWorkshop and PreventOverbooking *)
(* work on the repositories directly, outside every Unit-of-Work scope.    *)
(***************************************************************************)
\* mutant: the difference is returned as it is
RemainingFamilySlotsUnfloored(w) == w.max_families - w.current_families

\* WorkshopEntity.remaining_family_slots
RemainingFamilySlots(w) == Max(0, w.max_families - w.current_families)

\* WorkshopEntity.remaining_child_slots
RemainingChildSlots(w) == Max(0, w.max_children - w.current_children)

\* PreventOverbookingUseCase._validate_input
ValidatePreventOverbooking(in) ==
    /\ in.workshop_id > 0
    /\ in.requested_family_slots > 0
    /\ in.requested_child_slots > 0

\* the output of PreventOverbooking; slots, when given, is the pair of the
\* remaining family and child slots, else both are None
CapacityResult(s, result, has_capacity, slots) ==
    [store |-> s, result |-> result, id |-> None, has_capacity |-> has_capacity,
     remaining_family_slots |-> slots[1], remaining_child_slots |-> slots[2]]

\* mutant: a request for exactly the remaining slots is turned down
MoreThanOrAll(requested, remaining) == requested >= remaining

\* the comparisons of requested with remaining slots in
\* PreventOverbookingUseCase.execute
MoreThan(requested, remaining) == requested > remaining

\* PreventOverbookingUseCase.execute; fail: 1 get_by_id
PreventOverbookingExecute(s0, in, fail) ==
    IF ~ValidatePreventOverbooking(in)
    THEN CapacityResult(s0, "invalid", FALSE, <<None, None>>)
    ELSE IF fail = 1 THEN CapacityResult(s0, "failed", FALSE, <<None, None>>)
    ELSE
    LET workshop == GetById(s0, "workshops", in.workshop_id)
    IN  IF workshop.id = None
        THEN CapacityResult(s0, "not_found", FALSE, <<None, None>>)
        ELSE
        LET slots == <<RemainingFamilySlots(workshop), RemainingChildSlots(workshop)>>
        IN  IF MoreThan(in.requested_family_slots, slots[1])
            THEN CapacityResult(s0, "no_family_slots", FALSE, slots)
            ELSE IF MoreThan(in.requested_child_slots, slots[2])
            THEN CapacityResult(s0, "no_child_slots", FALSE, slots)
            ELSE CapacityResult(s0, "ok", TRUE, slots)

\* the questions asked: about no workshop, the first workshop or one never
\* created, for no slot, one slot or the greatest number of slots
PreventOverbookingInputs ==
    [workshop_id : {0, 1, MaxId + 1},
     requested_family_slots : {0, 1, MaxFamilies},
     requested_child_slots : {0, 1, MaxChildren}]

PreventOverbooking(in, fail) ==
    Executed("PreventOverbooking", PreventOverbookingExecute(Store, in, fail))

DoPreventOverbooking ==
    \E in \in PreventOverbookingInputs : \E fail \in 0..1 : PreventOverbooking(in, fail)

\* EditWorkshopUseCase._validate_input (the conditions on the id, the title
\* and the maxima)
ValidateEditWorkshop(in) ==
    /\ in.workshop_id > 0
    /\ in.title # ""
    /\ in.max_families > 0
    /\ in.max_children > 0

\* the output of EditWorkshop; affected_bookings is the set of the ids of
\* the bookings reported (empty for None)
EditResult(s, result, id, affected_bookings) ==
    [store |-> s, result |-> result, id |-> id,
     affected_bookings |-> affected_bookings]

\* mutant: the edit also resets the family counter
EditedResettingCounter(workshop, in) ==
    [workshop EXCEPT !.title = in.title, !.max_families = in.max_families,
                     !.max_children = in.max_children, !.current_families = 0]

\* the assignments of EditWorkshopUseCase.execute to the workshop it read
Edited(workshop, in) ==
    [workshop EXCEPT !.title = in.title, !.max_families = in.max_families,
                     !.max_children = in.max_children]

\* EditWorkshopUseCase.execute; fail: 1 get_by_id, 2 get_by_workshop_id,
\* 3 the first get_guardian_for_booking, 4 update.  Reading .name of a
\* guardian that was not found raises as well.
EditWorkshopExecute(s0, in, fail) ==
    IF ~ValidateEditWorkshop(in) THEN EditResult(s0, "invalid", None, {})
    ELSE IF fail = 1 THEN EditResult(s0, "failed", None, {})
    ELSE
    LET workshop == GetById(s0, "workshops", in.workshop_id)
    IN  IF workshop.id = None THEN EditResult(s0, "not_found", None, {})
        ELSE
        LET slots_reduced == \/ in.max_families < workshop.max_families
                             \/ in.max_children < workshop.max_children
            below_usage == \/ in.max_families < workshop.current_families
                           \/ in.max_children < workshop.current_children
            bookings == IF slots_reduced /\ below_usage
                        THEN GetByWorkshopId(s0, workshop.id) ELSE {}
        IN  IF slots_reduced /\ below_usage /\ fail = 2
            THEN EditResult(s0, "failed", None, {})
            ELSE IF bookings # {} /\ fail = 3 THEN EditResult(s0, "failed", None, {})
            ELSE IF \E b \in bookings : GetGuardianForBooking(s0, b).id = None
            THEN EditResult(s0, "failed", None, {})
            ELSE IF fail = 4 THEN EditResult(s0, "failed", None, {})
            ELSE EditResult(Update(s0, "workshops", Edited(workshop, in)),
                            "ok", workshop.id, bookings)

\* the edits asked for: of no workshop, the first workshop or one never
\* created, with a new title or none, and maxima of 0, 1 or the greatest
EditWorkshopInputs ==
    [workshop_id : {0, 1, MaxId + 1}, title : {"v", ""},
     max_families : {0, 1, MaxFamilies}, max_children : {0, 1, MaxChildren}]

EditWorkshop(in, fail) ==
    Executed("EditWorkshop", EditWorkshopExecute(Store, in, fail))

DoEditWorkshop ==
    \E in \in EditWorkshopInputs : \E fail \in 0..4 : EditWorkshop(in, fail)

\* CreateBooking of one child or of the greatest number of children in the
\* first workshop
CapacityCreateBooking ==
    \E n \in {1, MaxChildren} :
        CreateBooking([workshop_id |-> 1, guardian_email |-> "a@x",
                       children |-> [i \in 1..n |-> [name |-> "c", age |-> 5]]], 0)

\* CancelBooking by an admin
CapacityCancelBooking ==
    \E b \in 1..MaxBookings :
        CancelBooking([booking_id |-> b, canceller_id |-> 1,
                       canceller_type |-> "admin", reason |-> "ill"], 0)

\* CreateWorkshop of the first workshop, with the greatest capacities
CapacityCreateWorkshop ==
    /\ next_id.workshops = 1
    /\ RetainCreateWorkshop

NextCapacity ==
    \/ CapacityCreateWorkshop
    \/ CapacityCreateBooking
    \/ CapacityCancelBooking
    \/ DoEditWorkshop
    \/ DoPreventOverbooking

SpecCapacity == Init /\ [][NextCapacity]_vars


(***************************************************************************)
(* Claims about the capacity of a workshop (under SpecCapacity)            *)
(***************************************************************************)
\* C31: PreventOverbooking(w, f, c) with f > 0 and c > 0 on a stored
\* workshop reports has_capacity exactly when f and c are at most the
\* remaining family and child slots, reports the remaining slots in both
\* outcomes, and changes nothing stored.  The first conjunct states, in
\* every reachable state, what an execution started there reports; the
\* second is about every execution step taken.
C31_PreventOverbookingDecision ==
    /\ [](\A in \in PreventOverbookingInputs :
            (in.requested_family_slots > 0 /\ in.requested_child_slots > 0
                 /\ Has(Store, "workshops", in.workshop_id)) =>
            LET w == entities.workshops[in.workshop_id]
                families_left == IF w.current_families <= w.max_families
                                 THEN w.max_families - w.current_families ELSE 0
                children_left == IF w.current_children <= w.max_children
                                 THEN w.max_children - w.current_children ELSE 0
                r == PreventOverbookingExecute(Store, in, 0)
            IN  /\ r.has_capacity <=> (in.requested_family_slots <= families_left
                                       /\ in.requested_child_slots <= children_left)
                /\ r.has_capacity <=> r.result = "ok"
                /\ r.remaining_family_slots = families_left
                /\ r.remaining_child_slots = children_left
                /\ r.store = Store)
    /\ [][last'.op = "PreventOverbooking" =>
             (entities' = entities /\ next_id' = next_id
              /\ snapshots' = snapshots /\ is_active' = is_active)]_vars

\* PreventOverbooking has just reported capacity for a workshop with one
\* family slot and one child slot left: the request was for exactly what
\* remained
C31_Witness ==
    /\ last = Call("PreventOverbooking", "ok")
    /\ DOMAIN entities.workshops = {1}
    /\ entities.workshops[1].max_families - entities.workshops[1].current_families = 1
    /\ entities.workshops[1].max_children - entities.workshops[1].current_children = 1


\* what every EditWorkshop step leaves alone: the bookings, the guardians,
\* the id counters, the set of workshops and their usage counters
EditWorkshopFrame ==
    last'.op = "EditWorkshop" =>
        /\ entities'.bookings = entities.bookings
        /\ entities'.guardians = entities.guardians
        /\ next_id' = next_id
        /\ DOMAIN entities'.workshops = DOMAIN entities.workshops
        /\ \A k \in DOMAIN entities.workshops :
               /\ entities'.workshops[k].current_families
                      = entities.workshops[k].current_families
               /\ entities'.workshops[k].current_children
                      = entities.workshops[k].current_children
        /\ last'.result # "ok" => entities' = entities

\* what a valid EditWorkshop of a stored workshop does when no repository
\* call raises, given the condition under which it reports the bookings of
\* the workshop as affected
EditWorkshopEffect(in, reports) ==
    LET old == entities.workshops[in.workshop_id]
        r == EditWorkshopExecute(Store, in, 0)
    IN  /\ r.result = "ok"
        /\ r.store = [Store EXCEPT
               !.entities.workshops[in.workshop_id].title = in.title,
               !.entities.workshops[in.workshop_id].max_families = in.max_families,
               !.entities.workshops[in.workshop_id].max_children = in.max_children]
        /\ r.affected_bookings =
               IF reports THEN {b \in DOMAIN entities.bookings :
                                   entities.bookings[b].workshop_id = in.workshop_id}
               ELSE {}

\* C32 as stated: EditWorkshop changes only the descriptive fields and the
\* maxima of the stored workshop, never its usage counters; it succeeds even
\* when a new maximum is below current usage, and reports every booking of
\* the workshop as affected exactly when a new maximum is below current
\* usage.
C32_EditReportsWhenBelowUsage ==
    /\ [](\A in \in EditWorkshopInputs :
            (ValidateEditWorkshop(in) /\ Has(Store, "workshops", in.workshop_id)) =>
            LET old == entities.workshops[in.workshop_id]
            IN  EditWorkshopEffect(in, \/ in.max_families < old.current_families
                                       \/ in.max_children < old.current_children))
    /\ [][EditWorkshopFrame]_vars

\* C32 as the code has it: the same, but the bookings are reported exactly
\* when a maximum is lowered by this edit and a new maximum is below current
\* usage; an edit that keeps or raises both maxima reports none, even if
\* usage already exceeds them.
C32_EditReportsWhenReducedBelowUsage ==
    /\ [](\A in \in EditWorkshopInputs :
            (ValidateEditWorkshop(in) /\ Has(Store, "workshops", in.workshop_id)) =>
            LET old == entities.workshops[in.workshop_id]
            IN  EditWorkshopEffect(in,
                    /\ \/ in.max_families < old.max_families
                       \/ in.max_children < old.max_children
                    /\ \/ in.max_families < old.current_families
                       \/ in.max_children < old.current_children))
    /\ [][EditWorkshopFrame]_vars

\* an edit has just succeeded for a workshop with two active bookings whose
\* maximum of families is now below the families counted
C32_Witness ==
    /\ last = Call("EditWorkshop", "ok")
    /\ DOMAIN entities.bookings = {1, 2}
    /\ \A b \in {1, 2} : entities.bookings[b].status = "active"
    /\ entities.workshops[1].title = "v"
    /\ entities.workshops[1].current_families = 2
    /\ entities.workshops[1].max_families = 1


(***************************************************************************)
(* Entity model: one WorkshopEntity, constructed with any counters, on     *)
(* which add_family and remove_family are called.  The entity is held as   *)
(* workshop 1.                                                             *)
(***************************************************************************)
\* the value add_family returns
AddFamilyReturns(w) == HasFamilyCapacity(w)

\* the value remove_family returns
RemoveFamilyReturns(w) == w.current_families > 0

\* WorkshopEntity(...) with counters inside and outside [0, max]
InitEntity ==
    /\ \E max_families \in 0..MaxFamilies :
       \E current_families \in (-MaxDeficit)..(MaxFamilies + 1) :
       \E max_children \in 1..MaxChildren :
       \E current_children \in 0..max_children :
           entities = [EmptyDicts EXCEPT !.workshops =
                          Put(EmptyDict, 1, WorkshopEntity(1, max_families, max_children,
                                                           current_families,
                                                           current_children))]
    /\ next_id = [r \in Repos |-> 1]
    /\ snapshots = EmptyDicts
    /\ is_active = FALSE
    /\ depth = 0
    /\ last = Call("init", "ok")
    /\ phase = "outside"
    /\ begun = EmptyDicts
    /\ assigned = [r \in Repos |-> 0]
    /\ writes = 0
    /\ heap = [objs |-> <<>>, live |-> EmptyDict, snap |-> EmptyDict,
               held |-> {}, next_id |-> 1, active |-> FALSE]

CallAddFamily ==
    LET w == entities.workshops[1]
    IN  /\ entities' = [entities EXCEPT !.workshops[1] = AddFamily(w)]
        /\ last' = Call("add_family", IF AddFamilyReturns(w) THEN "true" ELSE "false")
        /\ UNCHANGED <<next_id, snapshots, is_active, depth, phase, begun,
                       assigned, writes, heap>>

CallRemoveFamily ==
    LET w == entities.workshops[1]
    IN  /\ entities' = [entities EXCEPT !.workshops[1] = RemoveFamily(w)]
        /\ last' = Call("remove_family", IF RemoveFamilyReturns(w) THEN "true" ELSE "false")
        /\ UNCHANGED <<next_id, snapshots, is_active, depth, phase, begun,
                       assigned, writes, heap>>

NextEntity ==
    \/ CallAddFamily
    \/ CallRemoveFamily

SpecEntity == InitEntity /\ [][NextEntity]_vars

\* C33: add_family adds 1 to current_families and returns true when
\* current_families < max_families, else returns false and changes nothing;
\* remove_family subtracts 1 and returns true when current_families > 0,
\* else returns false and changes nothing; a call made with
\* 0 <= current_families <= max_families leaves it within these bounds.
C33_FamilyCounterStaysInBounds ==
    [][LET w == entities.workshops[1]
           after == entities'.workshops[1]
       IN  /\ last'.op = "add_family" =>
                  IF w.current_families < w.max_families
                  THEN /\ last'.result = "true"
                       /\ after = [w EXCEPT !.current_families = @ + 1]
                  ELSE last'.result = "false" /\ after = w
           /\ last'.op = "remove_family" =>
                  IF w.current_families > 0
                  THEN /\ last'.result = "true"
                       /\ after = [w EXCEPT !.current_families = @ - 1]
                  ELSE last'.result = "false" /\ after = w
           /\ (0 <= w.current_families /\ w.current_families <= w.max_families) =>
                  (0 <= after.current_families
                   /\ after.current_families <= after.max_families)]_vars

\* add_family has just been refused on a workshop that is full
C33_Witness ==
    /\ last = Call("add_family", "false")
    /\ entities.workshops[1].max_families = MaxFamilies
    /\ entities.workshops[1].current_families = MaxFamilies


\* C34: for every stored workshop, remaining_family_slots() and
\* remaining_child_slots() are not negative, equal max - current when
\* current <= max, and equal 0 when current > max.
C34_RemainingSlotsNeverNegative ==
    \A k \in DOMAIN entities.workshops :
        LET w == entities.workshops[k]
        IN  /\ RemainingFamilySlots(w) >= 0
            /\ RemainingChildSlots(w) >= 0
            /\ w.current_families <= w.max_families =>
                   RemainingFamilySlots(w) = w.max_families - w.current_families
            /\ w.current_children <= w.max_children =>
                   RemainingChildSlots(w) = w.max_children - w.current_children
            /\ w.current_families > w.max_families => RemainingFamilySlots(w) = 0
            /\ w.current_children > w.max_children => RemainingChildSlots(w) = 0

\* the workshop counts more families and more children than its maxima,
\* which an edit has lowered
C34_Witness ==
    /\ Has(Store, "workshops", 1)
    /\ entities.workshops[1].current_families > entities.workshops[1].max_families
    /\ entities.workshops[1].current_children > entities.workshops[1].max_children
    /\ RemainingFamilySlots(entities.workshops[1]) = 0


(***************************************************************************)
(* Viewing model: workshops created, bookings created and cancelled, and   *)
(* ViewBookingsForWorkshop asked for the bookings of a workshop.           *)
(***************************************************************************)
\* the output of ViewBookingsForWorkshop; bookings is the set of the ids of
\* the bookings listed
ViewResult(r, bookings) ==
    [store |-> r.store, result |-> r.result, id |-> r.id, bookings |-> bookings]

\* ViewBookingsForWorkshopUseCase.execute; viewer_id None is an absent
\* viewer_id; fail: 1 workshops.get_by_id, 2 bookings.get_all, 3 the first
\* guardians.get_by_id
ViewBookingsExecute(s0, in, fail) ==
    LET s1 == Enter(s0)
    IN  IF fail = 1 THEN ViewResult(Raise(s1), {})
        ELSE IF GetById(s1, "workshops", in.workshop_id).id = None
        THEN ViewResult(Return(s1, "not_found", None), {})
        ELSE IF fail = 2 THEN ViewResult(Raise(s1), {})
        ELSE
        LET all_bookings == GetAll(s1, "bookings")
            of_workshop == {b \in all_bookings : b.workshop_id = in.workshop_id}
            workshop_bookings ==
                IF ~in.viewer_is_admin /\ in.viewer_id # None
                THEN {b \in of_workshop : b.guardian_id = in.viewer_id}
                ELSE of_workshop
        IN  IF workshop_bookings # {} /\ fail = 3 THEN ViewResult(Raise(s1), {})
            ELSE ViewResult(Return(s1, "ok", None),
                            {b.id : b \in {x \in workshop_bookings :
                                              Has(s1, "guardians", x.guardian_id)}})

ViewBookingsInputs ==
    [workshop_id : 0..MaxId, viewer_id : {None} \cup (1..MaxBookings),
     viewer_is_admin : BOOLEAN]

ViewBookings(in, fail) ==
    Executed("ViewBookings", ViewBookingsExecute(Store, in, fail))

DoViewBookings ==
    \E in \in ViewBookingsInputs : \E fail \in 0..3 : ViewBookings(in, fail)

NextView ==
    \/ DupCreateWorkshop
    \/ DupCreateBooking
    \/ DupCancelBooking
    \/ DoViewBookings

SpecView == Init /\ [][NextView]_vars

\* C35: every booking that ViewBookingsForWorkshop lists for a viewer who is
\* not an admin, whatever viewer_id is and also when it is absent, has
\* guardian_id equal to viewer_id.  Stated, in every reachable state, about
\* an execution started there.
C35_GuardianSeesOwnBookingsOnly ==
    \A in \in ViewBookingsInputs : \A fail \in 0..3 :
        ~in.viewer_is_admin =>
            \A b \in ViewBookingsExecute(Store, in, fail).bookings :
                entities.bookings[b].guardian_id = in.viewer_id

\* bookings of two different guardians are stored for the first workshop
\* and a ViewBookingsForWorkshop execution has just listed bookings
C35_Witness ==
    /\ last = Call("ViewBookings", "ok")
    /\ DOMAIN entities.bookings = {1, 2}
    /\ \A b \in {1, 2} : entities.bookings[b].workshop_id = 1
    /\ entities.bookings[1].guardian_id # entities.bookings[2].guardian_id


(***************************************************************************)
(* Further claims about linking (under SpecLink)                           *)
(***************************************************************************)
\* C36: LinkBookingsToGuardians asked to link a booking that is linked to
\* another guardian returns an error and leaves that booking as it was; over
\* every execution, a booking's guardian_id either stays or goes from unset
\* to the id of the guardian asked for, and nothing else of the booking
\* changes.  The first conjunct states, in every reachable state, what an
\* execution started there does; the second is about every execution step
\* taken.
C36_NeverRelinks ==
    /\ [](\A in \in LinkBookingsInputs : \A fail \in 0..5 :
            LET r == LinkBookingsExecute(Store, in, fail)
                linked_elsewhere ==
                    {i \in 1..Len(in.booking_ids) :
                        /\ Has(Store, "bookings", in.booking_ids[i])
                        /\ entities.bookings[in.booking_ids[i]].guardian_id
                               \notin {None, in.guardian_id}}
            IN  /\ linked_elsewhere # {} => r.result # "ok"
                /\ \A i \in linked_elsewhere :
                       r.store.entities.bookings[in.booking_ids[i]]
                           = entities.bookings[in.booking_ids[i]]
                /\ \A b \in DOMAIN entities.bookings :
                       /\ b \in DOMAIN r.store.entities.bookings
                       /\ \/ r.store.entities.bookings[b] = entities.bookings[b]
                          \/ /\ entities.bookings[b].guardian_id = None
                             /\ r.store.entities.bookings[b] =
                                    [entities.bookings[b] EXCEPT
                                        !.guardian_id = in.guardian_id])
    /\ [][last'.op = "LinkBookings" =>
             \A b \in DOMAIN entities.bookings :
                 entities.bookings[b].guardian_id # None =>
                     entities'.bookings[b] = entities.bookings[b]]_vars

\* the first booking is linked to the first guardian, a second guardian is
\* stored, and a LinkBookingsToGuardians execution has just been turned down
\* because a booking was linked to another guardian
C36_Witness ==
    /\ last = Call("LinkBookings", "already_linked")
    /\ DOMAIN entities.guardians = {1, 2}
    /\ Has(Store, "bookings", 1)
    /\ entities.bookings[1].guardian_id = 1


\* C37: for every stored workshop with both counters within [0, max] and
\* every n >= 1, a valid CreateBooking with n children passes its capacity
\* checks exactly when PreventOverbooking asked for 1 family slot and n
\* child slots reports capacity for the same stored workshop.  Stated, in
\* every reachable state, about the two executions started there.
C37_CreateBookingAgreesWithPreventOverbooking ==
    \A k \in DOMAIN entities.workshops : \A n \in 1..(MaxChildren + 1) :
        LET w == entities.workshops[k]
            booked == CreateBookingExecute(Store,
                          [workshop_id |-> k, guardian_email |-> "a@x",
                           children |-> [i \in 1..n |-> [name |-> "c", age |-> 5]]], 0)
            asked == PreventOverbookingExecute(Store,
                          [workshop_id |-> k, requested_family_slots |-> 1,
                           requested_child_slots |-> n], 0)
        IN  (/\ 0 <= w.current_families /\ w.current_families <= w.max_families
             /\ 0 <= w.current_children /\ w.current_children <= w.max_children) =>
                /\ booked.result \in {"ok", "no_family_capacity", "no_child_capacity"}
                /\ booked.result = "ok" <=> asked.has_capacity

\* a CreateBooking has just been turned down for its children although a
\* family slot and one child slot were left
C37_Witness ==
    /\ last = Call("CreateBooking", "no_child_capacity")
    /\ Has(Store, "workshops", 1)
    /\ entities.workshops[1].current_families < entities.workshops[1].max_families
    /\ entities.workshops[1].max_children - entities.workshops[1].current_children = 1
    /\ entities.workshops[1].current_families >= 0


(***************************************************************************)
(* Scope exits after a commit and without one (under SpecScope).           *)
(***************************************************************************)
\* C38: when an error propagates out of a scope in which commit has
\* succeeded (no begin or exit since), the rollback called by __exit__
\* raises, the repositories keep their contents, nothing is restored from
\* the (already discarded) snapshots, and the Unit-of-Work is idle.
C38_ErrorAfterCommitKeepsData ==
    [][(ExitOnError /\ phase = "committed") =>
            /\ last' = Call("exit_error", "ValueError")
            /\ entities' = entities
            /\ snapshots = EmptyDicts /\ snapshots' = EmptyDicts
            /\ ~is_active /\ ~is_active']_vars

\* a workshop was saved and committed inside a scope, a guardian saved after
\* the commit, and the scope left on an error: both are still stored
C38_Witness ==
    /\ last = Call("exit_error", "ValueError")
    /\ depth = 0
    /\ writes = 2
    /\ ~is_active
    /\ DOMAIN entities.workshops = {1}
    /\ DOMAIN entities.guardians = {1}
    /\ snapshots = EmptyDicts


\* C39: a scope that is left normally with no commit or rollback since its
\* begin keeps every write made in it: the repositories have the same
\* contents after the exit (so get_by_id and get_all return them), and the
\* begin that follows such an exit copies them into its snapshots.
C39_UncommittedWritesSurviveNormalExit ==
    [][/\ (ExitNormally /\ phase \in {"clean", "rebegun"}) =>
              /\ last' = Call("exit", "ok")
              /\ entities' = entities
              /\ \A r \in Repos : GetAll(Store, r) = {entities'[r][id] : id \in DOMAIN entities'[r]}
       /\ (EnterScope /\ last = Call("exit", "ok")) =>
              (snapshots' = entities /\ entities' = entities)]_vars

\* a workshop was saved, a scope entered, a booking saved in it and the scope
\* left normally: the snapshots of the begin hold the workshop alone, so
\* nothing was committed or rolled back, and the booking is stored
C39_Witness ==
    /\ last = Call("exit", "ok")
    /\ depth = 0
    /\ ~is_active
    /\ DOMAIN entities.workshops = {1}
    /\ DOMAIN entities.bookings = {1}
    /\ GetById(Store, "bookings", 1).id = 1
    /\ snapshots.workshops = entities.workshops
    /\ snapshots.bookings = EmptyDict


(***************************************************************************)
(* Identifiers under mixed saves (under SpecScope).                        *)
(***************************************************************************)
\* C40: a save with unset id assigns an id that no stored entity of the
\* repository has, and a save with a supplied id changes the entry at that
\* id and no other.
C40_NewIdNeverOverwrites ==
    [][\A r \in Repos : \A e \in SampleEntities(r) :
          /\ SaveNew(r, e) => ~Has(Store, r, Save(Store, r, e).entity.id)
          /\ \A id \in 1..MaxId : SaveAt(r, e, id) =>
                /\ DOMAIN entities'[r] = DOMAIN entities[r] \cup {id}
                /\ \A k \in DOMAIN entities[r] \ {id} : entities'[r][k] = entities[r][k]
                /\ \A q \in Repos \ {r} : entities'[q] = entities[q]]_vars

\* the only id the workshop repository ever assigned is 1, in the save just
\* made, and the snapshots of the begin before it already hold another
\* workshop at 1: the new workshop has replaced it
C40_Witness ==
    /\ last = Call("save_new", "ok")
    /\ assigned.workshops = 1
    /\ is_active
    /\ DOMAIN snapshots.workshops = {1}
    /\ snapshots.workshops[1].current_families = 1
    /\ DOMAIN entities.workshops = {1}
    /\ entities.workshops[1].current_families = 0

====
